---- MODULE Spec2Model ----
(***************************************************************************)
(* Model of plasmactl-platform:                                            *)
(*   - state_management_components.py : version fetchers, StateCreator,    *)
(*     snapshot rotation (main);                                           *)
(*   - platform_components.py : the component graph builder (VarsModule).  *)
(*                                                                         *)
(* Python strings are sequences of one-character strings, Python lists are *)
(* sequences, Python dicts are functions with a finite domain.             *)
(***************************************************************************)
EXTENDS Integers, Sequences, FiniteSets, TLC

----------------------------------------------------------------------------
(* Python str / dict primitives                                            *)

\* s.startswith(p)
StartsWith(s, p) == Len(p) <= Len(s) /\ SubSeq(s, 1, Len(p)) = p

\* `sub in s` on strings
Contains(s, sub) ==
    \E i \in 1..(Len(s) - Len(sub) + 1) : SubSeq(s, i, i + Len(sub) - 1) = sub

\* s.replace(old, new) : leftmost, non-overlapping
RECURSIVE Replace(_, _, _)
Replace(s, old, new) ==
    IF Len(s) = 0 THEN <<>>
    ELSE IF StartsWith(s, old)
         THEN new \o Replace(SubSeq(s, Len(old) + 1, Len(s)), old, new)
         ELSE <<Head(s)>> \o Replace(Tail(s), old, new)

\* s.split(sep) : every occurrence of sep separates two pieces
RECURSIVE SplitAcc(_, _, _)
SplitAcc(s, sep, piece) ==
    IF Len(s) = 0 THEN <<piece>>
    ELSE IF StartsWith(s, sep)
         THEN <<piece>> \o SplitAcc(SubSeq(s, Len(sep) + 1, Len(s)), sep, <<>>)
         ELSE SplitAcc(Tail(s), sep, Append(piece, Head(s)))

Split(s, sep) == SplitAcc(s, sep, <<>>)

\* s.split(sep, 1) : only the first occurrence separates
RECURSIVE Split1Acc(_, _, _)
Split1Acc(s, sep, piece) ==
    IF Len(s) = 0 THEN <<piece>>
    ELSE IF StartsWith(s, sep)
         THEN <<piece, SubSeq(s, Len(sep) + 1, Len(s))>>
         ELSE Split1Acc(Tail(s), sep, Append(piece, Head(s)))

Split1(s, sep) == Split1Acc(s, sep, <<>>)

IsSpace(c) == c \in {" ", "\n"}

\* s.strip()
RECURSIVE LStrip(_)
LStrip(s) == IF Len(s) > 0 /\ IsSpace(Head(s)) THEN LStrip(Tail(s)) ELSE s

RECURSIVE RStrip(_)
RStrip(s) ==
    IF Len(s) > 0 /\ IsSpace(s[Len(s)]) THEN RStrip(SubSeq(s, 1, Len(s) - 1)) ELSE s

Strip(s) == LStrip(RStrip(s))

\* s.split() : runs of whitespace separate, no empty piece
RECURSIVE SplitWsAcc(_, _)
SplitWsAcc(s, piece) ==
    IF Len(s) = 0 THEN (IF Len(piece) = 0 THEN <<>> ELSE <<piece>>)
    ELSE IF IsSpace(Head(s))
         THEN (IF Len(piece) = 0 THEN <<>> ELSE <<piece>>) \o SplitWsAcc(Tail(s), <<>>)
         ELSE SplitWsAcc(Tail(s), Append(piece, Head(s)))

SplitWs(s) == SplitWsAcc(s, <<>>)

\* sep.join(parts)
RECURSIVE Join(_, _)
Join(sep, parts) ==
    IF Len(parts) = 0 THEN <<>>
    ELSE IF Len(parts) = 1 THEN parts[1]
    ELSE parts[1] \o sep \o Join(sep, Tail(parts))

LowerChar(c) ==
    CASE c = "X" -> "x" [] c = "Y" -> "y" [] c = "P" -> "p" [] c = "Q" -> "q"
      [] c = "M" -> "m" [] c = "R" -> "r" [] c = "V" -> "v" [] OTHER -> c

\* s.lower()
Lower(s) == [i \in 1..Len(s) |-> LowerChar(s[i])]

\* the empty dict
EmptyDict == <<>>

\* d[k] = v
DictSet(d, k, v) == (k :> v) @@ d

\* a dict.update that keeps the value of a key it already holds
DictUpdate_KeepFirst(d, other) == d @@ other

\* d.update(other) : every key of other replaces the whole value held by d
DictUpdate(d, other) == other @@ d

\* d.get(k, default)
DictGet(d, k, default) == IF k \in DOMAIN d THEN d[k] ELSE default

\* x in list
InList(x, l) == \E i \in 1..Len(l) : l[i] = x

\* Python values that a field may hold with different types
PyNone == <<"none">>
PyStr(s) == <<"str", s>>
PyList(l) == <<"list", l>>

----------------------------------------------------------------------------
(* Literals                                                                *)

MRV == <<"M", "R", "V">>
UnderscoreMRV == <<"_", "M", "R", "V">>
CUR == <<"c", "u", "r">>
DashCur == <<"-", "c", "u", "r">>
NL == <<"\n">>
\* the dict key "current_version" (no tag of the model's alphabet spells it)
CurrentVersion == <<"current_version">>
LINK == <<"l", "i", "n", "k">>

----------------------------------------------------------------------------
(* OSVersionFetcher                                                        *)

\* lines = [line for line in result.split("\n") if "MRV" in line]
MrvLines(result) == SelectSeq(Split(result, NL), LAMBDA line : Contains(line, MRV))

\* key, value = line.strip().split("=") raises ValueError unless two pieces
EnvUnpackFails(result) ==
    \E i \in 1..Len(MrvLines(result)) :
        Len(Split(Strip(MrvLines(result)[i]), <<"=">>)) # 2

RECURSIVE EnvFold(_, _, _)
EnvFold(lines, default_tag, data) ==
    IF Len(lines) = 0 THEN data
    ELSE LET kv == Split(Strip(Head(lines)), <<"=">>)
             key == Lower(Replace(kv[1], UnderscoreMRV, <<>>))
         IN  EnvFold(Tail(lines), default_tag,
                     DictSet(data, key, (default_tag :> <<kv[2]>>)))

get_env_vars_with_mrv(result, default_tag) ==
    EnvFold(MrvLines(result), default_tag, EmptyDict)

----------------------------------------------------------------------------
(* ClusterVersionFetcher                                                   *)

cluster_resources == <<"statefulset", "sparkapplication", "objectbucketclaim",
               "storageclass", "prometheus", "deployment", "daemonset">>

\* the jq program: select(.mrn and .mrv) | {(mrn | gsub("-"; "_")): {tag: [mrv]}},
\* then `jq -s add` (objects are added key by key, the later one wins)
RECURSIVE JqAdd(_, _, _)
JqAdd(items, default_tag, acc) ==
    IF Len(items) = 0 THEN acc
    ELSE LET ann == Head(items)
         IN  IF "mrn" \in DOMAIN ann /\ "mrv" \in DOMAIN ann
             THEN JqAdd(Tail(items), default_tag,
                        DictSet(acc, Replace(ann.mrn, <<"-">>, <<"_">>),
                                (default_tag :> <<ann.mrv>>)))
             ELSE JqAdd(Tail(items), default_tag, acc)

\* for kind in resources: data.update(json.loads(result)) unless result is "null"
RECURSIVE ClusterFold(_, _, _, _)
ClusterFold(cluster, i, default_tag, data) ==
    IF i > Len(cluster_resources) THEN data
    ELSE ClusterFold(cluster, i + 1, default_tag,
                     DictUpdate(data, JqAdd(cluster[cluster_resources[i]].items, default_tag, EmptyDict)))

\* subprocess.check_output raises CalledProcessError on a non-zero exit
ClusterFails(cluster) == \E i \in 1..Len(cluster_resources) : cluster[cluster_resources[i]].rc # 0

ClusterFetch(cluster, default_tag) == ClusterFold(cluster, 1, default_tag, EmptyDict)

----------------------------------------------------------------------------
(* ImagesVersionFetcher                                                    *)

\* One line of `crictl images`, as process_crictl_output handles it.
CrictlLine(line, state_builder_images_uri, result) ==
    LET columns == SplitWs(line) IN
    IF Len(columns) < 2 THEN result
    ELSE LET image == columns[1]
             tag == columns[2]
         IN  IF ~Contains(tag, CUR) THEN result
             ELSE IF Contains(tag, <<"_">>) /\ ~Contains(tag, <<"_", "_">>)
             THEN LET tag_parts == Split1(tag, <<"_">>)
                      tag_id == tag_parts[1]
                      tag_suffix == Replace(tag_parts[2], DashCur, <<>>)
                      image_parts == Split(image, <<"/">>)
                      mrn == Replace(
                                Join(<<"_", "_">>,
                                     SelectSeq(image_parts,
                                               LAMBDA part : part # state_builder_images_uri)),
                                <<"-">>, <<"_">>)
                  IN  IF mrn \in DOMAIN result
                      THEN [result EXCEPT ![mrn] = DictSet(@, tag_suffix, <<tag_id>>)]
                      ELSE DictSet(result, mrn, (tag_suffix :> <<tag_id>>))
             ELSE result

RECURSIVE CrictlFold(_, _, _)
CrictlFold(lines, state_builder_images_uri, result) ==
    IF Len(lines) = 0 THEN result
    ELSE CrictlFold(Tail(lines), state_builder_images_uri,
                    CrictlLine(Head(lines), state_builder_images_uri, result))

\* crictl_output = stdout.strip().split("\n"); crictl_output.pop(); for line in ...
process_crictl_output(stdout, state_builder_images_uri) ==
    LET crictl_output == Split(Strip(stdout), NL)
        popped == SubSeq(crictl_output, 1, Len(crictl_output) - 1)
    IN  CrictlFold(popped, state_builder_images_uri, EmptyDict)

\* a fetch_local_images that parses what the lister printed whatever its exit
fetch_local_images_IgnoreExit(crictl, state_builder_images_uri) ==
    IF Len(crictl.stderr) > 0 THEN EmptyDict
    ELSE process_crictl_output(crictl.stdout, state_builder_images_uri)

\* crictl is [rc, stdout, stderr]: rc is "ok", "timeout" (TimeoutExpired) or
\* "nonzero" (CalledProcessError); every failure and a non-empty stderr give {}
fetch_local_images(crictl, state_builder_images_uri) ==
    IF crictl.rc # "ok" THEN EmptyDict
    ELSE IF Len(crictl.stderr) > 0 THEN EmptyDict
    ELSE process_crictl_output(crictl.stdout, state_builder_images_uri)

\* catalog_expr : the first request has no cursor, later ones use the Link target
catalog_expr(last) == IF last = 0 THEN 1 ELSE last

\* is_present(resp, "link") : some line of the response holds "link".  The
\* lines are the headers, among them `link: <next>` when the page has a
\* successor, and last the body, which holds the repository names.
is_present(page) ==
    \/ page.link # 0
    \/ \E i \in 1..Len(page.repositories) : Contains(page.repositories[i], LINK)

\* get_paths : follow the catalog pages while a response carries a Link header.
\* A page is [outcome, repositories, link]; outcome "error" is any Exception
\* raised by run_command (caught here), "timeout" is sys.exit (not caught).
\* get_last takes the first line that holds "link" and the text between its
\* angle brackets: the header when there is one; on the body, which has no
\* bracket, re.search gives None and .group raises AttributeError, caught as
\* any Exception before the repositories of the page are added.
RECURSIVE get_paths_from(_, _, _)
get_paths_from(catalog, last, paths) ==
    LET page == catalog[catalog_expr(last)] IN
    IF page.outcome = "timeout" THEN [exit |-> TRUE, paths |-> paths]
    ELSE IF page.outcome = "error" THEN [exit |-> FALSE, paths |-> paths]
    ELSE IF ~is_present(page)
         THEN [exit |-> FALSE, paths |-> paths \o page.repositories]
         ELSE IF page.link # 0
              THEN get_paths_from(catalog, page.link, paths \o page.repositories)
              ELSE [exit |-> FALSE, paths |-> paths]

get_paths(catalog) == get_paths_from(catalog, 0, <<>>)

\* the loop over result["tags"] of one repository
RECURSIVE TagFold(_, _, _)
TagFold(tags, i, current_tag_dict) ==
    IF i > Len(tags) THEN current_tag_dict
    ELSE LET cur == tags[i]
             cur_bool == Contains(cur, CUR)
         IN  IF Contains(cur, <<"_">>) /\ ~Contains(cur, <<"_", "_">>)
             THEN LET prefix == Split(cur, <<"_">>)[1]
                      suffix == Replace(Split(cur, <<"_">>)[2], DashCur, <<>>)
                      d1 == IF suffix \in DOMAIN current_tag_dict
                            THEN [current_tag_dict EXCEPT ![suffix] = Append(@, prefix)]
                            ELSE DictSet(current_tag_dict, suffix, <<prefix>>)
                      d2 == IF cur_bool THEN DictSet(d1, CurrentVersion, prefix) ELSE d1
                  IN  TagFold(tags, i + 1, d2)
             ELSE TagFold(tags, i + 1, current_tag_dict)

\* the body of `for future in as_completed(futures)` for one successful response
Aggregate(results, response) ==
    LET tags == IF response.tagsNull THEN <<>> ELSE response.tags
        exist == \E i \in 1..Len(tags) : Contains(tags[i], CUR)
        current_tag_dict == IF exist THEN TagFold(tags, 1, EmptyDict) ELSE EmptyDict
        resource_name == Replace(Replace(response.name, <<"/">>, <<"_", "_">>),
                                 <<"-">>, <<"_">>)
    IN  IF resource_name \in DOMAIN results
        THEN [results EXCEPT ![resource_name] = DictUpdate(@, current_tag_dict)]
        ELSE DictSet(results, resource_name, current_tag_dict)

\* Iterate the finished futures in the order as_completed yields them; the
\* first future whose call raised ends the fetch with that exception:
\* "cpe" CalledProcessError (curl exit status), "timeout" sys.exit inside
\* run_command, "errors" a body without "tags" (KeyError on result["tags"]).
RECURSIVE CompletedFold(_, _, _, _, _)
CompletedFold(taglists, paths, order, i, results) ==
    IF i > Len(order) THEN [outcome |-> "ok", data |-> results]
    ELSE LET response == taglists[paths[order[i]]] IN
         IF response.outcome = "cpe" THEN [outcome |-> "cpe", data |-> EmptyDict]
         ELSE IF response.outcome = "timeout" THEN [outcome |-> "exit", data |-> EmptyDict]
         ELSE IF response.outcome = "errors" THEN [outcome |-> "exception", data |-> EmptyDict]
         ELSE CompletedFold(taglists, paths, order, i + 1, Aggregate(results, response))

fetch_from_registry(registry, order) ==
    LET got == get_paths(registry.catalog) IN
    IF got.exit THEN [outcome |-> "exit", data |-> EmptyDict]
    ELSE CompletedFold(registry.taglists, got.paths, order, 1, EmptyDict)

\* the orders in which as_completed may yield n finished futures
Orders(n) == {o \in [1..n -> 1..n] : \A i, j \in 1..n : i # j => o[i] # o[j]}

\* a fetch_version in which the registry entry of a component replaces the
\* local entry as a whole
MergeImages_WholeEntry(docker_registry_data, local_images_data) ==
    docker_registry_data @@ local_images_data

\* fetch_version : local_images_data is the base, registry entries update it
MergeImages(docker_registry_data, local_images_data) ==
    [key \in DOMAIN local_images_data \cup DOMAIN docker_registry_data |->
        IF key \in DOMAIN docker_registry_data
        THEN IF key \in DOMAIN local_images_data
             THEN DictUpdate(local_images_data[key], docker_registry_data[key])
             ELSE docker_registry_data[key]
        ELSE local_images_data[key]]

ImagesFetch(registry, order, crictl, state_builder_images_uri) ==
    LET reg == fetch_from_registry(registry, order) IN
    IF reg.outcome # "ok" THEN reg
    ELSE [outcome |-> "ok",
          data |-> MergeImages(reg.data, fetch_local_images(crictl, state_builder_images_uri))]

----------------------------------------------------------------------------
(* StateCreator                                                            *)

\* a state_helper that looks fresh and build up under the channel "d" whatever
\* the channel of the record
state_helper_DefaultTag(new_version, tag, old_version) ==
    tag :> [mrv |-> DictGet(old_version, tag, <<>>),
            mrv_cur |-> IF CurrentVersion \in DOMAIN old_version
                        THEN PyStr(old_version[CurrentVersion])
                        ELSE IF tag \in DOMAIN old_version
                             THEN PyList(old_version[tag])
                             ELSE PyNone,
            exists |-> TRUE,
            fresh |-> InList(new_version, DictGet(old_version, <<"d">>, <<>>)),
            build |-> ~InList(new_version, DictGet(old_version, <<"d">>, <<>>))]

\* StateCreator.state_helper.  `old_version.get(tag, []) is not None` is the
\* value of "exists": the default is [] and no fetcher stores None, so the
\* test succeeds for every value that reaches it.
state_helper(new_version, tag, old_version) ==
    tag :> [mrv |-> DictGet(old_version, tag, <<>>),
            mrv_cur |-> IF CurrentVersion \in DOMAIN old_version
                        THEN PyStr(old_version[CurrentVersion])
                        ELSE IF tag \in DOMAIN old_version
                             THEN PyList(old_version[tag])
                             ELSE PyNone,
            exists |-> TRUE,
            fresh |-> InList(new_version, DictGet(old_version, tag, <<>>)),
            build |-> ~InList(new_version, DictGet(old_version, tag, <<>>))]

\* '{{ %s_service_plain_password|default("") }}' % machine_mrsn
PasswordTemplate(machine_mrsn) ==
    <<"{{ ">> \o machine_mrsn \o <<"_service_plain_password|default(\"\") }}">>

\* the loop `for tag in comp["mrt"]` of create_state.  comp["mrsn"] is read
\* for an observed channel only; its KeyError ends the loop for this component
\* and leaves states[mrn] as the earlier iterations made it.
RECURSIVE TagLoop(_, _, _, _)
TagLoop(mrn, comp, i, current_states) ==
    IF i > Len(comp.mrt) THEN comp
    ELSE IF /\ mrn \in DOMAIN current_states
            /\ comp.mrt[i] \in DOMAIN current_states[mrn]
            /\ "mrsn" \notin DOMAIN comp
    THEN comp
    ELSE LET tag == comp.mrt[i]
             observed == mrn \in DOMAIN current_states /\ tag \in DOMAIN current_states[mrn]
             state == IF observed
                      THEN state_helper(comp.mrv, tag, current_states[mrn])
                      ELSE state_helper(comp.mrv, tag, EmptyDict)
             c1 == IF observed
                   THEN DictSet(comp, "password",
                                PasswordTemplate(Replace(comp.mrsn, <<"-">>, <<"_">>)))
                   ELSE comp
             c2 == IF "state" \in DOMAIN c1
                   THEN [c1 EXCEPT !["state"] = DictUpdate(@, state)]
                   ELSE DictSet(c1, "state", state)
         IN  TagLoop(mrn, c2, i + 1, current_states)

\* StateCreator.create_state.  Every component is processed inside its own
\* try block: the KeyError of comp["mrv"] comes before `states[mrn] = comp`,
\* the KeyError of comp["mrt"] after it.
create_state(merged, state_builder_platform_components) ==
    [mrn \in {m \in DOMAIN state_builder_platform_components :
                 "mrv" \in DOMAIN state_builder_platform_components[m]} |->
        IF "mrt" \in DOMAIN state_builder_platform_components[mrn]
        THEN TagLoop(mrn, state_builder_platform_components[mrn], 1, merged)
        ELSE state_builder_platform_components[mrn]]

----------------------------------------------------------------------------
(* Snapshot store                                                          *)

max_files == 4
prefix == "vars_with_state"

\* a glob that matches every file of the directory
Glob_Everything(folder, pfx) == DOMAIN folder

\* glob.glob(os.path.join(directory, f"{prefix}_*.json"))
Glob(folder, pfx) == {name \in DOMAIN folder : Len(name) = 2 /\ name[1] = pfx}

\* files = sorted(glob, key=getctime); while len(files) >= max_files: remove(files.pop(0))
RECURSIVE manage_files(_, _, _)
manage_files(folder, pfx, maxfiles) ==
    LET files == Glob(folder, pfx) IN
    IF Cardinality(files) >= maxfiles
    THEN LET oldest == CHOOSE f \in files : \A g \in files : folder[f].ctime <= folder[g].ctime
         IN  manage_files([name \in DOMAIN folder \ {oldest} |-> folder[name]], pfx, maxfiles)
    ELSE folder

----------------------------------------------------------------------------
(* Inputs of a pass                                                        *)

\* module.params
state_builder_machine_resource_default_tag == <<"d">>
state_builder_images_uri == <<"i">>

\* the state a component carries out of the graph builder (init_state)
default_state == [mrv |-> <<>>, exists |-> FALSE, fresh |-> FALSE, build |-> TRUE]

\* state_builder_platform_components : x ships to channels d and k and wants
\* version a, p__q ships to channel d and wants version b.
state_builder_platform_components ==
    (<<"x">> :> [mrv |-> <<"a">>, mrsn |-> <<"x">>, mrt |-> << <<"d">>, <<"k">> >>,
                 state |-> (<<"d">> :> default_state) @@ (<<"k">> :> default_state)])
    @@
    (<<"p", "_", "_", "q">> :> [mrv |-> <<"b">>, mrsn |-> <<"q">>, mrt |-> << <<"d">> >>,
                 state |-> (<<"d">> :> default_state)])

\* what `source /etc/profile && env` may print
EnvOutputs ==
    { <<>>,
      <<"X", "_", "M", "R", "V", "=", "a", "\n">>,
      <<"X", "_", "M", "R", "V", "=", "a", "=", "b", "\n">> }

NoResources == [kind \in {cluster_resources[i] : i \in 1..Len(cluster_resources)} |-> [rc |-> 0, items |-> <<>>]]

\* what kubectl may report per resource kind: exit status and annotated items
ClusterOutputs ==
    { NoResources,
      [NoResources EXCEPT
          !["statefulset"] =
              [rc |-> 0, items |-> << [mrn |-> <<"p", "-", "-", "q">>, mrv |-> <<"b">>],
                                      [mrn |-> <<"x">>] >>],
          !["deployment"] =
              [rc |-> 0, items |-> << [mrn |-> <<"x">>, mrv |-> <<"b">>] >>]],
      [NoResources EXCEPT
          !["statefulset"] =
              [rc |-> 0, items |-> << [mrn |-> <<"x">>, mrv |-> <<"a">>] >>],
          !["prometheus"] = [rc |-> 1, items |-> <<>>]] }

OkTags(name, tags) == [outcome |-> "ok", name |-> name, tags |-> tags, tagsNull |-> FALSE]
NullTags(name) == [outcome |-> "ok", name |-> name, tags |-> <<>>, tagsNull |-> TRUE]
Failing(name, outcome) == [outcome |-> outcome, name |-> name, tags |-> <<>>, tagsNull |-> FALSE]
Page(repositories, link) == [outcome |-> "ok", repositories |-> repositories, link |-> link]
BadPage(outcome) == [outcome |-> outcome, repositories |-> <<>>, link |-> 0]

RepoX == <<"x">>
RepoPQ == <<"p", "/", "q">>

\* what the registry may answer: catalog pages and one tag list per repository
Registries ==
    { [catalog |-> << Page(<<>>, 0) >>, taglists |-> EmptyDict],
      [catalog |-> << Page(<<RepoX, RepoPQ>>, 0) >>,
       taglists |-> (RepoX :> OkTags(RepoX, << <<"a", "_", "d", "-", "c", "u", "r">>, <<"b", "_", "k">> >>))
                 @@ (RepoPQ :> OkTags(RepoPQ, << <<"b", "_", "d">> >>))],
      [catalog |-> << Page(<<RepoX>>, 2), Page(<<RepoPQ>>, 0) >>,
       taglists |-> (RepoX :> OkTags(RepoX, << <<"a", "_", "d", "-", "c", "u", "r">>, <<"b", "_", "d">>, <<"c", "_", "k", "-", "c", "u", "r">> >>))
                 @@ (RepoPQ :> NullTags(RepoPQ))],
      [catalog |-> << Page(<<RepoX>>, 2), BadPage("error") >>,
       taglists |-> (RepoX :> OkTags(RepoX, << <<"b", "_", "k", "-", "c", "u", "r">> >>))],
      [catalog |-> << Page(<<RepoX, RepoPQ>>, 0) >>,
       taglists |-> (RepoX :> Failing(RepoX, "cpe"))
                 @@ (RepoPQ :> OkTags(RepoPQ, << <<"b", "_", "d", "-", "c", "u", "r">> >>))],
      [catalog |-> << Page(<<RepoX, RepoPQ>>, 0) >>,
       taglists |-> (RepoX :> Failing(RepoX, "errors"))
                 @@ (RepoPQ :> Failing(RepoPQ, "cpe"))],
      [catalog |-> << BadPage("timeout") >>, taglists |-> EmptyDict] }

\* what `sudo crictl images | grep images` may give
CrictlOutputs ==
    { [rc |-> "nonzero", stdout |-> <<>>, stderr |-> <<>>],
      [rc |-> "ok", stderr |-> <<>>,
       stdout |-> <<"i", "/", "x", " ", "b", "_", "k", "-", "c", "u", "r", "\n", "i", "/", "x", " ", "a", "_", "d", "-", "c", "u", "r", "\n", "i", "/", "p", "/", "q", " ", "b", "_", "d", "-", "c", "u", "r", "\n">>] }

----------------------------------------------------------------------------
(* main() of state_management_components.py                                *)

VARIABLES
    pc,            \* where main() stands: "idle" between two invocations
    now,           \* the clock, in seconds; an invocation takes at least one
    passes,        \* invocations started so far
    rotated,       \* the names given to the snapshots moved to the log folder, in order
    os_data, cluster_data, images_data,   \* what each fetcher returned in this pass
    merged_data,   \* the merged observation map of this pass
    states,        \* the state table of this pass
    snapshot,      \* /tmp/vars_with_state.json
    folder,        \* /tmp/state_management_logs/ : file name -> file
    outcome        \* how the last invocation ended and what it returned

passVars == <<pc, now, passes, rotated, os_data, cluster_data, images_data,
              merged_data, states, snapshot, folder, outcome>>

\* the state of the graph builder (platform_components.py, VarsModule), which
\* runs in a process of its own
VARIABLES
    playbook,              \* platform/platform.yaml : the plays and their roles
    calls,                 \* get_vars calls made on the process-wide instance
    bpc,                   \* where get_vars stands: "idle" between two calls
    entities,              \* the argument of the running get_vars call
    resources,             \* self.resources
    resource_order,        \* the component keys of self.resources in insertion order
    resource_namespaces,   \* self.resource_namespaces
    normalized_resources,  \* self.normalized_resources
    todo,                  \* roles build_resources has still to add
    stack,                 \* the add_resource calls in progress, innermost last
    constructed,           \* how often kind_constructor[kind]() ran, per mrn
    first_table,           \* self.resources as the first completed populate left it
    returned               \* what the last get_vars call gave its caller

builderVars == <<playbook, calls, bpc, entities, resources, resource_order, resource_namespaces,
                 normalized_resources, todo, stack, constructed, first_table, returned>>

\* the state of a fetch_version / create_state call followed step by step
VARIABLES
    upc,             \* where the call stands: "off" when no such call is followed
    registry_in,     \* what the registry answers
    crictl_in,       \* what the local image lister gives
    components_in,   \* the state_builder_platform_components parameter
    registry_out,    \* what fetch_from_registry returned or raised
    local_out,       \* what fetch_local_images returned
    images_out,      \* what fetch_version returned
    states_out,      \* what create_state returned
    paths_out        \* the repository list get_paths returned

unitVars == <<upc, registry_in, crictl_in, components_in, registry_out, local_out,
              images_out, states_out, paths_out>>

\* the thread pool of one fetch_from_registry call
VARIABLES
    ppc,             \* where the calling thread stands: "off" when no pool is followed
    commands,        \* len(command_lines)
    submitted,       \* the futures created so far
    running,         \* the requests a worker thread is executing
    finished,        \* the futures that are done
    written,         \* the writes to the results map so far
    writer           \* the thread that made the last write to the results map

poolVars == <<ppc, commands, submitted, running, finished, written, writer>>

\* the state of a machine_deep_requires_lookup call
VARIABLES
    fpc,             \* "off" when no such call is followed
    hostvars_in,     \* the hostvars argument
    resource_in,     \* the resource argument
    lookup_out       \* what the filter returned

filterVars == <<fpc, hostvars_in, resource_in, lookup_out>>

MaxPasses == 6

\* datetime.fromtimestamp(creation_time).strftime("%Y%m%d_%H%M%S") : the clock
\* counts whole seconds, of which the format keeps every digit
Timestamp(creation_time) == creation_time

\* the locals of main() are gone when the process ends
EndOfProcess ==
    /\ pc' = "idle"
    /\ os_data' = EmptyDict
    /\ cluster_data' = EmptyDict
    /\ images_data' = EmptyDict
    /\ merged_data' = EmptyDict
    /\ states' = EmptyDict

NoSnapshot == [exists |-> FALSE, ctime |-> 0, content |-> EmptyDict]

\* with open(folder_path + name, "w") as json_file: json.dump(...).  Of a file
\* of the log folder the model keeps the name and the ctime; no code reads its
\* content back.
WriteFile(dir, name, time) == DictSet(dir, name, [ctime |-> time])

PassInit ==
    /\ pc = "idle"
    /\ now = 0
    /\ passes = 0
    /\ rotated = <<>>
    /\ os_data = EmptyDict
    /\ cluster_data = EmptyDict
    /\ images_data = EmptyDict
    /\ merged_data = EmptyDict
    /\ states = EmptyDict
    /\ snapshot = NoSnapshot
    /\ folder = EmptyDict
    /\ outcome = [kind |-> "none", value |-> EmptyDict]

\* module.check_mode : exit_json(**result) with the empty result, nothing else runs
CheckMode ==
    /\ pc = "idle"
    /\ outcome' = [kind |-> "check_mode", value |-> EmptyDict]
    /\ UNCHANGED <<pc, now, passes, rotated, os_data, cluster_data, images_data,
                   merged_data, states, snapshot, folder>>
    /\ UNCHANGED <<builderVars, unitVars, poolVars, filterVars>>

\* main() from its entry to the first merged_data.update: merged_data = {},
\* states = {}, the host-environment fetch, the os_data file.  A ValueError of
\* the fetcher reaches `except Exception` : fail_json.
FetchOS ==
    /\ pc = "idle"
    /\ passes < MaxPasses
    /\ passes' = passes + 1
    /\ \E result \in EnvOutputs :
        /\ now' = now + 1
        /\ cluster_data' = EmptyDict
        /\ images_data' = EmptyDict
        /\ states' = EmptyDict
        /\ IF EnvUnpackFails(result)
           THEN /\ os_data' = EmptyDict
                /\ merged_data' = EmptyDict
                /\ pc' = "idle"
                /\ outcome' = [kind |-> "fail_json", value |-> EmptyDict]
                /\ UNCHANGED folder
           ELSE LET data == get_env_vars_with_mrv(result, state_builder_machine_resource_default_tag)
                IN  /\ os_data' = data
                    /\ folder' = WriteFile(folder, <<"os_data">>, now')
                    /\ merged_data' = DictUpdate(EmptyDict, data)
                    /\ pc' = "os_done"
                    /\ outcome' = [kind |-> "running", value |-> EmptyDict]
    /\ UNCHANGED <<rotated, snapshot>>
    /\ UNCHANGED <<builderVars, unitVars, poolVars, filterVars>>

\* the cluster fetch, the cluster_data file, merged_data.update(cluster_data);
\* a CalledProcessError of any kubectl pipeline leaves the try block
FetchCluster ==
    /\ pc = "os_done"
    /\ \E cluster \in ClusterOutputs :
        IF ClusterFails(cluster)
        THEN /\ pc' = "cpe"
             /\ UNCHANGED <<cluster_data, folder, merged_data>>
        ELSE LET data == ClusterFetch(cluster, state_builder_machine_resource_default_tag)
             IN  /\ cluster_data' = data
                 /\ folder' = WriteFile(folder, <<"cluster_data">>, now)
                 /\ merged_data' = DictUpdate(merged_data, data)
                 /\ pc' = "cluster_done"
    /\ UNCHANGED <<now, passes, rotated, os_data, images_data, states, snapshot, outcome>>
    /\ UNCHANGED <<builderVars, unitVars, poolVars, filterVars>>

\* the images fetch, the images_data file, merged_data.update(images_data), the
\* merge_data file.  CalledProcessError leaves the try block for its handler,
\* any other Exception ends in fail_json, sys.exit ends the process.
FetchImages ==
    /\ pc = "cluster_done"
    /\ \E registry \in Registries, crictl \in CrictlOutputs :
       \E order \in Orders(Len(get_paths(registry.catalog).paths)) :
        LET fetched == ImagesFetch(registry, order, crictl, state_builder_images_uri) IN
        CASE fetched.outcome = "ok" ->
                /\ UNCHANGED <<os_data, cluster_data, states>>
                /\ images_data' = fetched.data
                /\ merged_data' = DictUpdate(merged_data, fetched.data)
                /\ folder' = WriteFile(WriteFile(folder, <<"images_data">>, now),
                                       <<"merge_data">>, now)
                /\ pc' = "images_done"
                /\ UNCHANGED outcome
          [] fetched.outcome = "cpe" ->
                /\ pc' = "cpe"
                /\ UNCHANGED <<os_data, cluster_data, states, images_data, merged_data,
                               folder, outcome>>
          [] fetched.outcome = "exception" ->
                /\ EndOfProcess
                /\ outcome' = [kind |-> "fail_json", value |-> EmptyDict]
                /\ UNCHANGED folder
          [] fetched.outcome = "exit" ->
                /\ EndOfProcess
                /\ outcome' = [kind |-> "sys_exit", value |-> EmptyDict]
                /\ UNCHANGED folder
    /\ UNCHANGED <<now, passes, rotated, snapshot>>
    /\ UNCHANGED <<builderVars, unitVars, poolVars, filterVars>>

\* if merged_data != {}: states = StateCreator(merged_data).create_state(components)
Reconcile ==
    /\ pc = "images_done"
    /\ states' = IF DOMAIN merged_data # {}
                 THEN create_state(merged_data, state_builder_platform_components)
                 ELSE EmptyDict
    /\ pc' = "reconciled"
    /\ UNCHANGED <<now, passes, rotated, os_data, cluster_data, images_data,
                   merged_data, snapshot, folder, outcome>>
    /\ UNCHANGED <<builderVars, unitVars, poolVars, filterVars>>

\* if os.path.exists(new_file_path): move it to the log folder under the
\* timestamp of its ctime (the rename sets the ctime of the moved file), then
\* manage_files(folder_path, prefix, max_files)
Rotate ==
    /\ pc = "reconciled"
    /\ IF snapshot.exists
       THEN LET old_file_path == <<prefix, Timestamp(snapshot.ctime)>>
                moved == DictSet(folder, old_file_path, [ctime |-> now])
            IN  /\ folder' = manage_files(moved, prefix, max_files)
                /\ snapshot' = NoSnapshot
                /\ rotated' = Append(rotated, old_file_path)
       ELSE UNCHANGED <<folder, snapshot, rotated>>
    /\ pc' = "rotated"
    /\ UNCHANGED <<now, passes, os_data, cluster_data, images_data, merged_data,
                   states, outcome>>
    /\ UNCHANGED <<builderVars, unitVars, poolVars, filterVars>>

\* write the new state to /tmp/vars_with_state.json ; module.exit_json(**states)
WriteSnapshot ==
    /\ pc = "rotated"
    /\ snapshot' = [exists |-> TRUE, ctime |-> now, content |-> states]
    /\ outcome' = [kind |-> "exit_json", value |-> states]
    /\ EndOfProcess
    /\ UNCHANGED <<now, passes, rotated, folder>>
    /\ UNCHANGED <<builderVars, unitVars, poolVars, filterVars>>

\* except subprocess.CalledProcessError : reconcile what was merged so far ...
HandleCalledProcessError ==
    /\ pc = "cpe"
    /\ states' = IF DOMAIN merged_data # {}
                 THEN create_state(merged_data, state_builder_platform_components)
                 ELSE EmptyDict
    /\ pc' = "degraded"
    /\ UNCHANGED <<now, passes, rotated, os_data, cluster_data, images_data,
                   merged_data, snapshot, folder, outcome>>
    /\ UNCHANGED <<builderVars, unitVars, poolVars, filterVars>>

\* a handler that returns the table without writing it
WriteDegraded_NoWrite ==
    /\ pc = "degraded"
    /\ outcome' = [kind |-> "exit_json", value |-> states]
    /\ EndOfProcess
    /\ UNCHANGED <<now, passes, rotated, folder, snapshot>>
    /\ UNCHANGED <<builderVars, unitVars, poolVars, filterVars>>

\* ... write it over /tmp/vars_with_state.json, warn, exit_json(**states)
WriteDegraded ==
    /\ pc = "degraded"
    /\ snapshot' = [exists |-> TRUE, ctime |-> now, content |-> states]
    /\ outcome' = [kind |-> "exit_json", value |-> states]
    /\ EndOfProcess
    /\ UNCHANGED <<now, passes, rotated, folder>>
    /\ UNCHANGED <<builderVars, unitVars, poolVars, filterVars>>

----------------------------------------------------------------------------
(* platform_components.py : VarsModule, the component graph builder         *)
(* Names, paths and identifiers are strings of atoms: a character, or a run *)
(* of characters that no operation of the builder splits.                   *)

MaxCalls == 3

kind_singular ==
    [applications |-> "application", services |-> "service", flows |-> "flow",
     executors |-> "executor", skills |-> "skill", helpers |-> "helper",
     builders |-> "builder", libraries |-> "library", entities |-> "entity",
     softwares |-> "software", functions |-> "function"]

\* {v: k for k, v in self.kind_singular.items()}
kind_plural ==
    [v \in {kind_singular[k] : k \in DOMAIN kind_singular} |->
        CHOOSE k \in DOMAIN kind_singular : kind_singular[k] = v]

kind_scheme ==
    [application |-> "app", service |-> "svc", flow |-> "flow", executor |-> "executor",
     skill |-> "skill", entity |-> "ent", software |-> "soft", function |-> "function",
     helper |-> "hp", builder |-> "build", library |-> "lib"]

\* name.replace('-', '_').replace('.', '__')
normalize_name(name) == Replace(Replace(name, <<"-">>, <<"_">>), <<".">>, <<"_", "_">>)

\* path.split('/')[-3]
KindFolder(path) == Split(path, <<"/">>)[Len(Split(path, <<"/">>)) - 2]

\* self.kind_singular[...] raises KeyError for a folder that is no kind
KnownKind(path) == KindFolder(path)[1] \in DOMAIN kind_singular

resource_kind_from_role_path(path) == kind_singular[KindFolder(path)[1]]

resource_has_image(mrk) ==
    mrk \in {"entity", "flow", "function", "library", "service", "skill", "software", "executor"}

Elements(list) == {list[i] : i \in 1..Len(list)}

images_by_tags(resource) ==
    IF resource_has_image(resource.mrk)
    THEN [tag \in Elements(resource.mrt) |->
              <<"images.foundation.svc.{{ machine_platform_name }}/">>
              \o Replace(Replace(resource.mrn, <<"_", "_">>, <<"/">>), <<"_">>, <<"-">>)
              \o <<":">> \o resource.mrv \o <<"_">> \o tag]
    ELSE EmptyDict

\* init_state : every channel starts from the default state
init_state(mrt) == [tag \in Elements(mrt) |-> default_state]

\* findIncludes : the names that follow an include_role line of one file, each once
RECURSIVE findIncludes(_, _)
findIncludes(names, res) ==
    IF Len(names) = 0 THEN res
    ELSE findIncludes(Tail(names), IF InList(Head(names), res) THEN res ELSE Append(res, Head(names)))

\* get_included_dependencies : includes += matches, file after file
RECURSIVE get_included_dependencies(_)
get_included_dependencies(task_files) ==
    IF Len(task_files) = 0 THEN <<>>
    ELSE findIncludes(Head(task_files), <<>>) \o get_included_dependencies(Tail(task_files))

\* require_names_by_kind of add_resource
RECURSIVE RequireNamesByKind(_, _, _)
RequireNamesByKind(requires, rs, by_kind) ==
    IF Len(requires) = 0 THEN by_kind
    ELSE LET require == rs[Head(requires)]
             names == IF require.mrk \in DOMAIN by_kind THEN by_kind[require.mrk] ELSE <<>>
         IN  RequireNamesByKind(Tail(requires), rs,
                                DictSet(by_kind, require.mrk, Append(names, require.mrn)))

\* a grouping loop that sets the plural list only
Groupings_PluralOnly(by_kind) ==
    [attr \in {kind_plural[k] : k \in DOMAIN by_kind} |-> by_kind[kind_singular[attr]]]

\* setattr(resource, kind_plural[mrk], require_names); setattr(resource, mrk, require_names[0])
Groupings(by_kind) ==
    [attr \in {kind_plural[k] : k \in DOMAIN by_kind} \cup DOMAIN by_kind |->
        IF attr \in DOMAIN by_kind
        THEN by_kind[attr][1]
        ELSE by_kind[kind_singular[attr]]]

\* trigger and output of a flow: a text that names <mrn>.mrc loses its
\* braces and blanks and gets mrc in its place
FlowField(text, mrn, mrc) ==
    IF Contains(text, mrn \o <<".", "m", "r", "c">>)
    THEN Replace(Replace(Replace(Replace(text, <<"{", "{">>, <<>>), <<"}", "}">>, <<>>),
                         mrn \o <<".", "m", "r", "c">>, mrc),
                 <<" ">>, <<>>)
    ELSE text

\* `'vars' in task` and `'flow_output' in v`
IsFlowTask(task) == "vars" \in DOMAIN task /\ "flow_output" \in DOMAIN task.vars

\* resource.skill, self.resources[resource.skill] or its stage is missing
FlowTaskFails(resource, rs) ==
    \/ "skill" \notin DOMAIN resource
    \/ resource.skill \notin DOMAIN rs
    \/ "stage" \notin DOMAIN rs[resource.skill]

\* the body of the loop over the tasks of a flow: input, trigger, output, and
\* the skill field replaced by the FlowSkill record of name and stage
FlowTask(resource, task, rs, path) ==
    LET v == task.vars
        template == <<"{", "{", " ">> \o resource.mrn
                    \o <<".", "p", "a", "t", "h", " ", "}", "}">>
        inp == IF Contains(v.flow_input, template)
               THEN Replace(v.flow_input, template, path) ELSE v.flow_input
        fs == [name |-> resource.skill, stage |-> rs[resource.skill].stage]
    IN  DictSet(DictSet(DictSet(DictSet(resource, "input", inp),
                                "trigger", FlowField(v.flow_trigger, resource.mrn, resource.mrc)),
                        "output", FlowField(v.flow_output, resource.mrn, resource.mrc)),
                "skill", fs)

\* for task in role._load_role_yaml('tasks'): ...
RECURSIVE FlowTasks(_, _, _, _)
FlowTasks(resource, tasks, rs, path) ==
    IF Len(tasks) = 0 THEN [ok |-> TRUE, resource |-> resource]
    ELSE IF ~IsFlowTask(Head(tasks)) THEN FlowTasks(resource, Tail(tasks), rs, path)
    ELSE IF FlowTaskFails(resource, rs) THEN [ok |-> FALSE, resource |-> resource]
    ELSE FlowTasks(FlowTask(resource, Head(tasks), rs, path), Tail(tasks), rs, path)

\* The resource classes are declared outside this module; a new instance has
\* no forward and no inverse edge.
Resource == [requires |-> <<>>, requiredby |-> <<>>]

\* an add_resource without the memo on the normalized name
IsRegistered_Never(rs, name) == FALSE

\* `resource_normalized_name in self.resources`
IsRegistered(rs, name) == name \in DOMAIN rs

\* a get_vars that populates on every call
NeedsPopulate_Always(rs) == TRUE

\* `len(self.resources) == 0`
NeedsPopulate(rs) == Cardinality(DOMAIN rs) = 0

MachineResources == <<"machine_resources">>
MachineResourceNamespaces == <<"machine_resource_namespaces">>
PlatformComponents == <<"platform_components">>

\* the keys of self.resources that hold components
Mrns(rs) == DOMAIN rs \ {MachineResources, MachineResourceNamespaces}

\* an inverse pass that appends the name of the dependency instead of the
\* name of the requiring component
RECURSIVE AppendRequiredBy_DepName(_, _, _)
AppendRequiredBy_DepName(rs, resource_name, requires) ==
    IF Len(requires) = 0 THEN rs
    ELSE AppendRequiredBy_DepName(
            [rs EXCEPT ![Head(requires)].requiredby = Append(@, Head(requires))],
            resource_name, Tail(requires))

\* process_resources_dependencies : every requires entry appends the
\* requiring mrn to the requiredby of the required component
RECURSIVE AppendRequiredBy(_, _, _)
AppendRequiredBy(rs, resource_name, requires) ==
    IF Len(requires) = 0 THEN rs
    ELSE AppendRequiredBy(
            [rs EXCEPT ![Head(requires)].requiredby = Append(@, resource_name)],
            resource_name, Tail(requires))

\* names : the keys of self.resources in insertion order
RECURSIVE process_resources_dependencies(_, _)
process_resources_dependencies(rs, names) ==
    IF Len(names) = 0 THEN rs
    ELSE process_resources_dependencies(
            AppendRequiredBy(rs, Head(names), rs[Head(names)].requires),
            Tail(names))

\* The definition tree: role name -> role.  path is role._role_path, meta the
\* content of meta/plasma.yaml ({} when the file is missing), direct the roles
\* of get_direct_dependencies, task_files the include_role names of each yaml
\* file of the role in the order of the file.
RoleNA == <<"n", ".", "a">>
RoleNS == <<"n", ".", "s">>
RoleNT == <<"n", ".", "t">>
RoleNL == <<"n", ".", "l">>
RoleNU == <<"n", ".", "u">>
RoleNM == <<"n", ".", "m">>
RoleMEF == <<"m", ".", "e", "-", "f">>
RoleMEF2 == <<"m", ".", "e", "_", "f">>
RoleNK == <<"n", ".", "k">>
RoleNF == <<"n", ".", "f">>
RoleNG == <<"n", ".", "g">>

Meta(version) == [author |-> <<"me">>, description |-> <<"text">>, version |-> version]

Roles ==
    (RoleNA :> [path |-> <<"n", "/", "applications", "/", "roles", "/", "a">>, meta |-> Meta(<<"1">>),
                direct |-> <<RoleNS, RoleNT>>, task_files |-> << <<RoleNS>> >>])
 @@ (RoleNS :> [path |-> <<"n", "/", "services", "/", "roles", "/", "s">>,
                meta |-> [author |-> <<"me">>, description |-> <<"text">>,
                          version |-> <<"2">>, tags |-> << <<"d">>, <<"k">> >>],
                direct |-> <<RoleNL>>, task_files |-> <<>>])
 @@ (RoleNT :> [path |-> <<"n", "/", "services", "/", "roles", "/", "t">>, meta |-> Meta(<<"3">>),
                direct |-> <<>>, task_files |-> << <<RoleNL, RoleNL>>, <<RoleNL>> >>])
 @@ (RoleNL :> [path |-> <<"n", "/", "libraries", "/", "roles", "/", "l">>,
                meta |-> [author |-> <<"me">>, description |-> <<"text">>],
                direct |-> <<>>, task_files |-> <<>>])
 @@ (RoleNU :> [path |-> <<"n", "/", "misc", "/", "roles", "/", "u">>, meta |-> Meta(<<"1">>),
                direct |-> <<>>, task_files |-> <<>>])
 @@ (RoleNM :> [path |-> <<"n", "/", "services", "/", "roles", "/", "m">>, meta |-> EmptyDict,
                direct |-> <<>>, task_files |-> <<>>])
 @@ (RoleMEF :> [path |-> <<"m", "/", "entities", "/", "roles", "/", "e-f">>, meta |-> Meta(<<"1">>),
                direct |-> <<>>, task_files |-> <<>>])
 @@ (RoleMEF2 :> [path |-> <<"m", "/", "entities", "/", "roles", "/", "e_f">>, meta |-> Meta(<<"2">>),
                direct |-> <<RoleNL>>, task_files |-> <<>>])
 @@ (RoleNK :> [path |-> <<"n", "/", "skills", "/", "roles", "/", "k">>,
                meta |-> [author |-> <<"me">>, description |-> <<"text">>,
                          version |-> <<"4">>, stage |-> <<"prod">>],
                direct |-> <<>>, task_files |-> <<>>])
 @@ (RoleNF :> [path |-> <<"n", "/", "flows", "/", "roles", "/", "f">>, meta |-> Meta(<<"5">>),
                direct |-> <<RoleNK, RoleNS>>, task_files |-> <<>>,
                tasks |-> << [name |-> <<"first">>],
                             [name |-> <<"second">>,
                              vars |-> [flow_input |-> <<"{", "{", " ", "n", "_", "_", "f", ".",
                                                         "p", "a", "t", "h", " ", "}", "}",
                                                         "/", "i", "n">>,
                                        flow_trigger |-> <<"{", "{", " ", "n", "_", "_", "f", ".",
                                                           "m", "r", "c", " ", "}", "}", ".", "t">>,
                                        flow_output |-> <<"o", "u", "t">>]] >>])
 @@ (RoleNG :> [path |-> <<"n", "/", "flows", "/", "roles", "/", "g">>, meta |-> Meta(<<"6">>),
                direct |-> <<RoleNK>>, task_files |-> <<>>,
                tasks |-> << [name |-> <<"only">>] >>])

Play(name, roles) == [name |-> name, roles |-> roles]

\* the playbooks a process may be started on
Playbooks ==
    { <<>>,
      << Play(<<"g">>, <<RoleNA>>) >>,
      << Play(<<"g">>, <<RoleNS, RoleNA>>), Play(<<"h">>, <<RoleNT, RoleMEF, RoleMEF2>>) >>,
      << Play(<<"g">>, <<RoleNS, RoleNU, RoleNT>>) >>,
      << Play(<<"g">>, <<RoleNM>>) >>,
      << Play(<<"g">>, <<RoleMEF2, RoleNM>>) >>,
      << Play(<<"g">>, <<RoleNF, RoleNG>>) >> }

\* the entities get_vars may be called with
GroupEntity(name) == [group |-> TRUE, name |-> name]
HostEntity(name) == [group |-> FALSE, name |-> name]
EntitiesArgs ==
    { <<>>,
      << GroupEntity(<<"platform">>) >>,
      << GroupEntity(<<"platform", ".", "g">>) >>,
      << HostEntity(<<"platform">>) >> }

AllMrns == {normalize_name(r) : r \in DOMAIN Roles}

\* for play in playbook.get_plays(): for role in play.get_roles(): ...
RECURSIVE PlayRoles(_)
PlayRoles(plays) ==
    IF Len(plays) = 0 THEN <<>>
    ELSE [i \in 1..Len(Head(plays).roles) |->
             [role |-> Head(plays).roles[i], group_path |-> Head(plays).name]]
         \o PlayRoles(Tail(plays))

\* what get_vars returns once self.normalized_resources is in place
ReturnValue(ents, normalized) ==
    IF Len(ents) > 0
       /\ ents[1].group
       /\ (ents[1].name = <<"platform">> \/ StartsWith(ents[1].name, <<"platform", ".">>))
    THEN [kind |-> "ok", value |-> normalized]
    ELSE [kind |-> "ok", value |-> EmptyDict]

BuilderInit ==
    /\ playbook \in Playbooks
    /\ calls = 0
    /\ bpc = "idle"
    /\ entities = <<>>
    /\ resources = EmptyDict
    /\ resource_order = <<>>
    /\ resource_namespaces = <<>>
    /\ normalized_resources = EmptyDict
    /\ todo = <<>>
    /\ stack = <<>>
    /\ constructed = [mrn \in AllMrns |-> 0]
    /\ first_table = EmptyDict
    /\ returned = [kind |-> "none", value |-> EmptyDict]

\* get_vars up to the call of populate; when self.resources is not empty it
\* returns at once
GetVars ==
    /\ bpc = "idle"
    /\ calls < MaxCalls
    /\ calls' = calls + 1
    /\ \E ents \in EntitiesArgs :
        /\ entities' = ents
        /\ IF NeedsPopulate(resources)
           THEN /\ todo' = PlayRoles(playbook)
                /\ bpc' = "build"
                /\ returned' = [kind |-> "running", value |-> EmptyDict]
           ELSE /\ returned' = ReturnValue(ents, normalized_resources)
                /\ UNCHANGED <<todo, bpc>>
    /\ UNCHANGED <<playbook, resources, resource_order, resource_namespaces,
                   normalized_resources, stack, constructed, first_table>>
    /\ UNCHANGED <<passVars, unitVars, poolVars, filterVars>>

\* a get_vars that swallows the exception and returns an empty table
Raise_Swallow ==
    /\ bpc' = "idle"
    /\ stack' = <<>>
    /\ todo' = <<>>
    /\ returned' = [kind |-> "ok", value |-> EmptyDict]

\* an exception leaves add_resource, build_resources, populate and get_vars
Raise ==
    /\ bpc' = "idle"
    /\ stack' = <<>>
    /\ todo' = <<>>
    /\ returned' = [kind |-> "error", value |-> EmptyDict]

\* add_resource from its entry to the loop over the dependencies; the caller
\* is build_resources (empty stack) or the add_resource on top of the stack
AddResource ==
    /\ bpc = "build"
    /\ IF stack = <<>> THEN todo # <<>>
       ELSE stack[Len(stack)].next <= Len(stack[Len(stack)].dependencies)
    /\ LET top == stack[Len(stack)]
           resource_name ==
               IF stack = <<>> THEN Head(todo).role ELSE top.dependencies[top.next]
           group_path ==
               IF stack = <<>> THEN Head(todo).group_path
               ELSE IF top.resource.mrk # "executor"
                    THEN top.group_path \o <<"/">> \o top.resource.mrsn
                    ELSE top.group_path
           caller == IF stack = <<>> THEN stack
                     ELSE [stack EXCEPT ![Len(stack)].next = @ + 1]
           callerTodo == IF stack = <<>> THEN Tail(todo) ELSE todo
           role == Roles[resource_name]
           resource_normalized_name == normalize_name(resource_name)
           metadata == role.meta
           path == role.path
       IN  IF IsRegistered(resources, resource_normalized_name)
           THEN /\ stack' = caller
                /\ todo' = callerTodo
                /\ UNCHANGED <<bpc, returned, resource_namespaces, constructed>>
           ELSE IF ~KnownKind(path)
           THEN /\ Raise
                /\ UNCHANGED <<resource_namespaces, constructed>>
           ELSE LET kind == resource_kind_from_role_path(path)
                    name_parts == Split(resource_name, <<".">>)
                    mrsn == Replace(name_parts[Len(name_parts)], <<"_">>, <<"-">>)
                    mrns == name_parts[1]
                    version == IF "version" \in DOMAIN metadata
                               THEN metadata.version ELSE <<"unknown">>
                    mrt == IF "tags" \in DOMAIN metadata
                           THEN metadata.tags ELSE << <<"default">> >>
                    resource ==
                        [mrns |-> mrns, mrn |-> resource_normalized_name, mrsn |-> mrsn,
                         name |-> resource_normalized_name,
                         author |-> metadata.author, description |-> metadata.description,
                         mrv |-> version, version |-> version, mrk |-> kind,
                         mrl |-> <<kind_scheme[kind], "://">> \o group_path \o <<"/">> \o mrsn,
                         mrc |-> Replace(group_path, <<"/">>, <<".">>) \o <<".">> \o mrsn,
                         mrt |-> mrt, state |-> init_state(mrt)] @@ Resource
                    dependencies ==
                        role.direct \o get_included_dependencies(role.task_files)
                IN  /\ constructed' = [constructed EXCEPT ![resource_normalized_name] = @ + 1]
                    /\ resource_namespaces' =
                           IF ~InList(mrns, resource_namespaces)
                           THEN Append(resource_namespaces, mrns)
                           ELSE resource_namespaces
                    /\ IF "author" \notin DOMAIN metadata \/ "description" \notin DOMAIN metadata
                       THEN Raise
                       ELSE /\ stack' = Append(caller,
                                   [role |-> resource_name, group_path |-> group_path,
                                    resource |-> resource, dependencies |-> dependencies,
                                    next |-> 1])
                            /\ todo' = callerTodo
                            /\ UNCHANGED <<bpc, returned>>
    /\ UNCHANGED <<playbook, calls, entities, resources, resource_order,
                   normalized_resources, first_table>>
    /\ UNCHANGED <<passVars, unitVars, poolVars, filterVars>>

\* add_resource after the loop over the dependencies: requires, mri, the
\* groupings by kind, stage, the tasks of a flow, and the registration in
\* self.resources
AddResourceReturn ==
    /\ bpc = "build"
    /\ stack # <<>>
    /\ stack[Len(stack)].next > Len(stack[Len(stack)].dependencies)
    /\ LET top == stack[Len(stack)]
           role == Roles[top.role]
           requires == [i \in 1..Len(top.dependencies) |-> normalize_name(top.dependencies[i])]
           r1 == [top.resource EXCEPT !.requires = requires]
           r2 == DictSet(r1, "mri", images_by_tags(r1))
           r3 == Groupings(RequireNamesByKind(requires, resources, EmptyDict)) @@ r2
           r4 == IF "stage" \in DOMAIN role.meta
                 THEN DictSet(r3, "stage", role.meta.stage) ELSE r3
           flow == IF r4.mrk = "flow" /\ "tasks" \in DOMAIN role
                   THEN FlowTasks(r4, role.tasks, resources, role.path)
                   ELSE [ok |-> TRUE, resource |-> r4]
           r5 == flow.resource
       IN  IF ~flow.ok
           THEN /\ Raise
                /\ UNCHANGED <<resources, resource_order>>
           ELSE /\ resources' = DictSet(resources, r5.mrn, r5)
                /\ resource_order' = IF r5.mrn \in DOMAIN resources THEN resource_order
                                     ELSE Append(resource_order, r5.mrn)
                /\ stack' = SubSeq(stack, 1, Len(stack) - 1)
                /\ UNCHANGED <<bpc, todo, returned>>
    /\ UNCHANGED <<playbook, calls, entities, resource_namespaces,
                   normalized_resources, constructed, first_table>>
    /\ UNCHANGED <<passVars, unitVars, poolVars, filterVars>>

\* populate once build_resources is through: process_resources_dependencies,
\* then the keys machine_resources and machine_resource_namespaces
Populate ==
    /\ bpc = "build"
    /\ stack = <<>>
    /\ todo = <<>>
    /\ LET linked == process_resources_dependencies(resources, resource_order)
           keyed == DictSet(DictSet(linked, MachineResources, resource_order),
                            MachineResourceNamespaces, resource_namespaces)
       IN  /\ resources' = keyed
           /\ first_table' = IF DOMAIN first_table = {} THEN keyed ELSE first_table
    /\ bpc' = "populated"
    /\ UNCHANGED <<playbook, calls, entities, resource_order, resource_namespaces,
                   normalized_resources, todo, stack, constructed, returned>>
    /\ UNCHANGED <<passVars, unitVars, poolVars, filterVars>>

\* get_vars after populate: normalize_resources, the platform_components copy,
\* the return
Normalize ==
    /\ bpc = "populated"
    /\ normalized_resources' = DictSet(resources, PlatformComponents, resources)
    /\ returned' = ReturnValue(entities, normalized_resources')
    /\ bpc' = "idle"
    /\ UNCHANGED <<playbook, calls, entities, resources, resource_order,
                   resource_namespaces, todo, stack, constructed, first_table>>
    /\ UNCHANGED <<passVars, unitVars, poolVars, filterVars>>

\* no builder runs in the process of a reconciliation pass
BuilderIdle ==
    /\ playbook = <<>>
    /\ calls = 0
    /\ bpc = "idle"
    /\ entities = <<>>
    /\ resources = EmptyDict
    /\ resource_order = <<>>
    /\ resource_namespaces = <<>>
    /\ normalized_resources = EmptyDict
    /\ todo = <<>>
    /\ stack = <<>>
    /\ constructed = [mrn \in AllMrns |-> 0]
    /\ first_table = EmptyDict
    /\ returned = [kind |-> "none", value |-> EmptyDict]

----------------------------------------------------------------------------
(* ImagesVersionFetcher.fetch_version and StateCreator.create_state, one    *)
(* call followed step by step on inputs of every shape                      *)

MaxTags == 3

\* tags as a repository or the local cache may carry them: well formed with
\* and without the -cur marker, without '_', with two '_' apart and adjacent
Tags ==
    { <<"a", "_", "d", "-", "c", "u", "r">>,
      <<"b", "_", "d">>,
      <<"c", "_", "k", "-", "c", "u", "r">>,
      <<"e", "-", "c", "u", "r">>,
      <<"f", "_", "d", "_", "k", "-", "c", "u", "r">>,
      <<"g", "_", "_", "d", "-", "c", "u", "r">> }

TagLists == UNION {[1..n -> Tags] : n \in 0..MaxTags}

\* a registry with the one repository x and the given tag list
TagRegistry(tags) ==
    [catalog |-> << Page(<<RepoX>>, 0) >>, taglists |-> (RepoX :> OkTags(RepoX, tags))]

\* the lines `crictl images | grep images` prints for image i/x with these tags
RECURSIVE ImageLines(_)
ImageLines(tags) ==
    IF Len(tags) = 0 THEN <<>>
    ELSE <<"i", "/", "x", " ">> \o Head(tags) \o NL \o ImageLines(Tail(tags))

\* what subprocess.run may give fetch_local_images: a non-zero exit, a timeout
\* with partial output, output on stderr, or a clean listing
CrictlInputs ==
    { [rc |-> "nonzero", stdout |-> <<>>, stderr |-> <<"!">>],
      [rc |-> "timeout", stderr |-> <<>>,
       stdout |-> ImageLines(<< <<"a", "_", "d", "-", "c", "u", "r">>,
                                <<"c", "_", "k", "-", "c", "u", "r">> >>)],
      [rc |-> "ok", stderr |-> <<"!">>,
       stdout |-> ImageLines(<< <<"a", "_", "d", "-", "c", "u", "r">>,
                                <<"c", "_", "k", "-", "c", "u", "r">> >>)] }
    \cup { [rc |-> "ok", stdout |-> ImageLines(tags), stderr |-> <<>>] : tags \in TagLists }

\* the components parameter: complete records, and records of component x
\* that miss mrv, mrt, or mrsn (with the observed channel d first or second)
ComponentInputs ==
    LET x == state_builder_platform_components[<<"x">>]
        Without(key) == [k \in DOMAIN x \ {key} |-> x[k]]
    IN  { state_builder_platform_components,
          [state_builder_platform_components EXCEPT ![<<"x">>] = Without("mrv")],
          [state_builder_platform_components EXCEPT ![<<"x">>] = Without("mrt")],
          [state_builder_platform_components EXCEPT ![<<"x">>] = Without("mrsn")],
          [state_builder_platform_components EXCEPT
              ![<<"x">>] = [Without("mrsn") EXCEPT !.mrt = << <<"z">>, <<"d">> >>]] }

RepoXdashY == <<"x", "-", "y">>
RepoXunderY == <<"x", "_", "y">>
RepoLinks == <<"l", "i", "n", "k", "s">>

\* a registry with two repositories that normalize to the component key x_y
CollidingRegistry ==
    [catalog |-> << Page(<<RepoXdashY, RepoXunderY>>, 0) >>,
     taglists |-> (RepoXdashY :> OkTags(RepoXdashY, << <<"a", "_", "d", "-", "c", "u", "r">> >>))
               @@ (RepoXunderY :> OkTags(RepoXunderY, << <<"b", "_", "d", "-", "c", "u", "r">>,
                                                           <<"c", "_", "k", "-", "c", "u", "r">> >>))]

\* a registry of three catalog pages
PagedRegistry ==
    [catalog |-> << Page(<<RepoX>>, 2), Page(<<RepoPQ, RepoXdashY>>, 3), Page(<<RepoXunderY>>, 0) >>,
     taglists |-> (RepoX :> OkTags(RepoX, << <<"a", "_", "d", "-", "c", "u", "r">> >>))
               @@ (RepoPQ :> OkTags(RepoPQ, << <<"b", "_", "d", "-", "c", "u", "r">> >>))
               @@ (RepoXdashY :> NullTags(RepoXdashY))
               @@ (RepoXunderY :> OkTags(RepoXunderY, << <<"c", "_", "k", "-", "c", "u", "r">> >>))]

\* a registry whose last catalog page lists a repository named links
LinksRegistry ==
    [catalog |-> << Page(<<RepoX>>, 2), Page(<<RepoLinks>>, 0) >>,
     taglists |-> (RepoX :> OkTags(RepoX, << <<"a", "_", "d", "-", "c", "u", "r">> >>))
               @@ (RepoLinks :> OkTags(RepoLinks, << <<"b", "_", "d", "-", "c", "u", "r">> >>))]

\* the inputs of one followed call
UnitInputs ==
    {[registry |-> TagRegistry(tags),
      crictl |-> [rc |-> "ok", stdout |-> ImageLines(tags), stderr |-> <<>>],
      components |-> state_builder_platform_components] : tags \in TagLists}
    \cup
    {[registry |-> r, crictl |-> [rc |-> "nonzero", stdout |-> <<>>, stderr |-> <<>>],
      components |-> state_builder_platform_components] :
        r \in {CollidingRegistry, PagedRegistry, LinksRegistry}}
    \cup
    {[registry |-> TagRegistry(tags), crictl |-> [rc |-> "nonzero", stdout |-> <<>>, stderr |-> <<>>],
      components |-> state_builder_platform_components] : tags \in TagLists}
    \cup
    {[registry |-> r, crictl |-> c, components |-> state_builder_platform_components] :
        r \in Registries, c \in CrictlInputs}
    \cup
    {[registry |-> TagRegistry(<< <<"a", "_", "d", "-", "c", "u", "r">>, <<"b", "_", "k">> >>),
      crictl |-> [rc |-> "nonzero", stdout |-> <<>>, stderr |-> <<>>],
      components |-> c] : c \in ComponentInputs}

NoFetch == [outcome |-> "none", data |-> EmptyDict]

UnitsIdle ==
    /\ upc = "off"
    /\ registry_in = TagRegistry(<<>>)
    /\ crictl_in = [rc |-> "nonzero", stdout |-> <<>>, stderr |-> <<>>]
    /\ components_in = EmptyDict
    /\ registry_out = NoFetch
    /\ local_out = EmptyDict
    /\ images_out = EmptyDict
    /\ states_out = EmptyDict
    /\ paths_out = <<>>

UnitsInit ==
    /\ upc = "start"
    /\ \E in \in UnitInputs :
        /\ registry_in = in.registry
        /\ crictl_in = in.crictl
        /\ components_in = in.components
    /\ registry_out = NoFetch
    /\ local_out = EmptyDict
    /\ images_out = EmptyDict
    /\ states_out = EmptyDict
    /\ paths_out = <<>>

\* docker_registry_data = self.fetch_from_registry(...) ; what it raises leaves
\* fetch_version
FetchFromRegistry ==
    /\ upc = "start"
    /\ paths_out' = get_paths(registry_in.catalog).paths
    /\ \E order \in Orders(Len(paths_out')) :
        registry_out' = fetch_from_registry(registry_in, order)
    /\ upc' = IF registry_out'.outcome = "ok" THEN "registry_done" ELSE "raised"
    /\ UNCHANGED <<registry_in, crictl_in, components_in, local_out, images_out, states_out>>
    /\ UNCHANGED <<passVars, builderVars, poolVars, filterVars>>

\* local_images_data = self.fetch_local_images(state_builder_images_uri)
FetchLocalImages ==
    /\ upc = "registry_done"
    /\ local_out' = fetch_local_images(crictl_in, state_builder_images_uri)
    /\ upc' = "local_done"
    /\ UNCHANGED <<registry_in, crictl_in, components_in, registry_out, images_out, states_out,
                   paths_out>>
    /\ UNCHANGED <<passVars, builderVars, poolVars, filterVars>>

\* the merge loop of fetch_version and its return
FetchVersion ==
    /\ upc = "local_done"
    /\ images_out' = MergeImages(registry_out.data, local_out)
    /\ upc' = "fetched"
    /\ UNCHANGED <<registry_in, crictl_in, components_in, registry_out, local_out, states_out,
                   paths_out>>
    /\ UNCHANGED <<passVars, builderVars, poolVars, filterVars>>

\* StateCreator(images).create_state(components)
CreateState ==
    /\ upc = "fetched"
    /\ states_out' = create_state(images_out, components_in)
    /\ upc' = "created"
    /\ UNCHANGED <<registry_in, crictl_in, components_in, registry_out, local_out, images_out,
                   paths_out>>
    /\ UNCHANGED <<passVars, builderVars, poolVars, filterVars>>

----------------------------------------------------------------------------
(* state_management_components.py : the thread pool of fetch_from_registry *)
(* The requests differ in nothing the pool looks at, so the model counts   *)
(* them: submitted = queued + running + finished.                          *)

MaxRequests == 52

max_workers == 50

\* a pool that starts a thread for every queued request
WorkerFree_Unbounded(busy) == TRUE

\* ThreadPoolExecutor(max_workers=50) : a queued request starts when fewer
\* than max_workers worker threads are busy
WorkerFree(busy) == busy < max_workers

PoolIdle ==
    /\ ppc = "off"
    /\ commands = 0
    /\ submitted = 0
    /\ running = 0
    /\ finished = 0
    /\ written = 0
    /\ writer = "none"

PoolInit ==
    /\ ppc = "submit"
    /\ commands \in {0, 1, 2, max_workers, MaxRequests}
    /\ submitted = 0
    /\ running = 0
    /\ finished = 0
    /\ written = 0
    /\ writer = "none"

\* executor.submit(run_command, command, "normal") for one command line
Submit ==
    /\ ppc = "submit"
    /\ submitted < commands
    /\ submitted' = submitted + 1
    /\ UNCHANGED <<ppc, commands, running, finished, written, writer>>
    /\ UNCHANGED <<passVars, builderVars, unitVars, filterVars>>

\* a worker thread takes a queued request and calls run_command
StartRequest ==
    /\ submitted - running - finished > 0
    /\ WorkerFree(running)
    /\ running' = running + 1
    /\ UNCHANGED <<ppc, commands, submitted, finished, written, writer>>
    /\ UNCHANGED <<passVars, builderVars, unitVars, filterVars>>

\* run_command returns or raises in its worker thread: the future is done
FinishRequest ==
    /\ running > 0
    /\ running' = running - 1
    /\ finished' = finished + 1
    /\ UNCHANGED <<ppc, commands, submitted, written, writer>>
    /\ UNCHANGED <<passVars, builderVars, unitVars, filterVars>>

\* concurrent.futures.wait(futures) returns once every future is done
WaitReturns ==
    /\ ppc = "submit"
    /\ submitted = commands
    /\ finished = commands
    /\ ppc' = "aggregate"
    /\ UNCHANGED <<commands, submitted, running, finished, written, writer>>
    /\ UNCHANGED <<passVars, builderVars, unitVars, filterVars>>

\* one turn of `for future in as_completed(futures)` in the calling thread:
\* the next finished future gives its result, which is written to the results
\* map, or raises, which ends the call
AggregateNext ==
    /\ ppc = "aggregate"
    /\ written < finished
    /\ \E raises \in BOOLEAN :
        IF raises
        THEN /\ ppc' = "raised"
             /\ UNCHANGED <<written, writer>>
        ELSE /\ written' = written + 1
             /\ writer' = "caller"
             /\ UNCHANGED ppc
    /\ UNCHANGED <<commands, submitted, running, finished>>
    /\ UNCHANGED <<passVars, builderVars, unitVars, filterVars>>

\* as_completed is exhausted: the with block ends and results is returned
ReturnResults ==
    /\ ppc = "aggregate"
    /\ written = commands
    /\ ppc' = "returned"
    /\ UNCHANGED <<commands, submitted, running, finished, written, writer>>
    /\ UNCHANGED <<passVars, builderVars, unitVars, filterVars>>

----------------------------------------------------------------------------
(* machine_filters.py : the deep closure of requires                       *)

MaxNodes == 4

\* unique : the first occurrence of every item, in order
RECURSIVE unique(_)
unique(items) ==
    IF Len(items) = 0 THEN <<>>
    ELSE LET u == unique(SubSeq(items, 1, Len(items) - 1))
             item == items[Len(items)]
         IN  IF InList(item, u) THEN u ELSE Append(u, item)

\* a merge that joins the lists of left and right as they are
merge_dicts_Concat(left, right) ==
    LET dicts == DictUpdate(left, right) IN
    [key \in DOMAIN dicts |->
        IF key \in DOMAIN left /\ key \in DOMAIN right
        THEN dicts[key] \o left[key]
        ELSE dicts[key]]

\* merge_dicts on dicts whose values are lists: {**left, **right}, then for a
\* key of both unique(value + left[key]) with value the list of right, and
\* for a key of one unique(value)
merge_dicts(left, right) ==
    LET dicts == DictUpdate(left, right) IN
    [key \in DOMAIN dicts |->
        IF key \in DOMAIN left /\ key \in DOMAIN right
        THEN unique(dicts[key] \o left[key])
        ELSE unique(dicts[key])]

\* hostvars[list(hostvars)[0]] : the variables of the first host
FirstHost(hostvars) == hostvars[1].vars

\* the loop of machine_deep_requires_lookup: requires is what is left of
\* resource['requires'], found the dict built so far; the inner call is the
\* recursive call on the dependency
RECURSIVE DeepRequiresLoop(_, _, _)
DeepRequiresLoop(requires, hostvars, found) ==
    IF Len(requires) = 0 THEN found
    ELSE LET dependency_resource ==
                 FirstHost(hostvars)[Replace(Head(requires), <<"-">>, <<"_">>)]
             mrk == dependency_resource.mrk
             listed == IF mrk \in DOMAIN found THEN found ELSE DictSet(found, mrk, <<>>)
             appended == [listed EXCEPT ![mrk] = Append(@, dependency_resource)]
         IN  DeepRequiresLoop(
                 Tail(requires), hostvars,
                 merge_dicts(appended,
                             DeepRequiresLoop(dependency_resource.requires, hostvars, EmptyDict)))

machine_deep_requires_lookup(resource, hostvars) ==
    DeepRequiresLoop(resource.requires, hostvars, EmptyDict)

\* the component tables the filter may be given: components c1..cn of two
\* kinds, every set of requires edges from a component to a later one, each
\* requires list in ascending order, and tables with a repeated entry
NodeName(i) == <<"c", "_", ToString(i)>>
NodeKind(i) == IF i % 2 = 0 THEN "service" ELSE "library"
EdgeSets == SUBSET {e \in (1..MaxNodes) \X (1..MaxNodes) : e[1] < e[2]}

RECURSIVE RequiresOf(_, _, _)
RequiresOf(edges, i, j) ==
    IF j > MaxNodes THEN <<>>
    ELSE (IF <<i, j>> \in edges THEN <<NodeName(j)>> ELSE <<>>) \o RequiresOf(edges, i, j + 1)

Table(edges, repeat) ==
    [name \in {NodeName(i) : i \in 1..MaxNodes} |->
        LET i == CHOOSE n \in 1..MaxNodes : NodeName(n) = name
            requires == RequiresOf(edges, i, i + 1)
        IN  [mrn |-> name, mrk |-> NodeKind(i),
             requires |-> IF repeat /\ Len(requires) > 0
                          THEN Append(requires, requires[1]) ELSE requires]]

Hostvars(table) == << [name |-> <<"host1">>, vars |-> table], [name |-> <<"host2">>, vars |-> table] >>

FiltersIdle ==
    /\ fpc = "off"
    /\ hostvars_in = <<>>
    /\ resource_in = EmptyDict
    /\ lookup_out = EmptyDict

FiltersInit ==
    /\ fpc = "start"
    /\ \E edges \in EdgeSets, repeat \in BOOLEAN, i \in 1..MaxNodes :
        /\ hostvars_in = Hostvars(Table(edges, repeat))
        /\ resource_in = Table(edges, repeat)[NodeName(i)]
    /\ lookup_out = EmptyDict

\* the filter applied to a component of the table
DeepRequiresLookup ==
    /\ fpc = "start"
    /\ lookup_out' = machine_deep_requires_lookup(resource_in, hostvars_in)
    /\ fpc' = "returned"
    /\ UNCHANGED <<hostvars_in, resource_in>>
    /\ UNCHANGED <<passVars, builderVars, unitVars, poolVars>>

vars == <<passVars, builderVars, unitVars, poolVars, filterVars>>

Init == PassInit /\ BuilderIdle /\ UnitsIdle /\ PoolIdle /\ FiltersIdle

InitUnits == PassInit /\ BuilderIdle /\ UnitsInit /\ PoolIdle /\ FiltersIdle

InitPool == PassInit /\ BuilderIdle /\ UnitsIdle /\ PoolInit /\ FiltersIdle

NextPool ==
    \/ Submit
    \/ StartRequest
    \/ FinishRequest
    \/ WaitReturns
    \/ AggregateNext
    \/ ReturnResults

SpecPool == InitPool /\ [][NextPool]_vars

InitFilters == PassInit /\ BuilderIdle /\ UnitsIdle /\ PoolIdle /\ FiltersInit

NextFilters == DeepRequiresLookup

SpecFilters == InitFilters /\ [][NextFilters]_vars

NextUnits ==
    \/ FetchFromRegistry
    \/ FetchLocalImages
    \/ FetchVersion
    \/ CreateState

SpecUnits == InitUnits /\ [][NextUnits]_vars

NextBuilder ==
    \/ GetVars
    \/ AddResource
    \/ AddResourceReturn
    \/ Populate
    \/ Normalize

InitBuilder == PassInit /\ BuilderInit /\ UnitsIdle /\ PoolIdle /\ FiltersIdle

SpecBuilder == InitBuilder /\ [][NextBuilder]_vars

Next ==
    \/ CheckMode
    \/ FetchOS
    \/ FetchCluster
    \/ FetchImages
    \/ Reconcile
    \/ Rotate
    \/ WriteSnapshot
    \/ HandleCalledProcessError
    \/ WriteDegraded

Spec == Init /\ [][Next]_vars

----------------------------------------------------------------------------
(* Properties of a reconciliation pass                                     *)

\* create_state has run and main() still holds the merged map
Reconciled == pc \in {"reconciled", "rotated", "degraded"}

\* the id list observed for a component and a channel in the merged map
ObservedIds(mrn, tag) ==
    IF mrn \in DOMAIN merged_data /\ tag \in DOMAIN merged_data[mrn]
    THEN merged_data[mrn][tag]
    ELSE <<>>

Channels(mrn) ==
    {state_builder_platform_components[mrn].mrt[i] :
        i \in 1..Len(state_builder_platform_components[mrn].mrt)}

Desired(mrn) == state_builder_platform_components[mrn].mrv

\* C1: every record produced by create_state has fresh = (the desired mrv is
\* a member of the id list observed for that component and channel in the
\* merged map) and build = not fresh.
C1_Freshness ==
    Reconciled =>
        \A mrn \in DOMAIN states : \A tag \in Channels(mrn) :
            LET rec == states[mrn].state[tag]
                ids == ObservedIds(mrn, tag)
            IN  /\ rec.fresh = (\E j \in 1..Len(ids) : ids[j] = Desired(mrn))
                /\ rec.build = ~rec.fresh

\* a pass in which x is fresh on channel d and stale on an observed channel k
C1_Witness ==
    /\ pc = "reconciled"
    /\ <<"x">> \in DOMAIN states
    /\ states[<<"x">>].state[<<"d">>].fresh
    /\ ~states[<<"x">>].state[<<"k">>].fresh
    /\ states[<<"x">>].state[<<"k">>].build
    /\ Len(ObservedIds(<<"x">>, <<"k">>)) > 0

\* C2: exists is true if and only if an observation for that component and
\* channel is present in the merged map and its id list is non-empty.
C2_Exists ==
    Reconciled =>
        \A mrn \in DOMAIN states : \A tag \in Channels(mrn) :
            states[mrn].state[tag].exists = (Len(ObservedIds(mrn, tag)) > 0)

\* C3: after a pass that completes the state table holds a record for every
\* component of the graph and every channel of its mrt, and a component-channel
\* without any observation has exists=false, fresh=false, build=true.
C3_EveryComponentHasRecord ==
    pc \in {"rotated", "degraded"} =>
        \A mrn \in DOMAIN state_builder_platform_components :
            /\ mrn \in DOMAIN states
            /\ \A tag \in Channels(mrn) :
                /\ tag \in DOMAIN states[mrn].state
                /\ Len(ObservedIds(mrn, tag)) = 0 =>
                      /\ ~states[mrn].state[tag].exists
                      /\ ~states[mrn].state[tag].fresh
                      /\ states[mrn].state[tag].build

\* C4: mrv_cur is the id marked current for that channel's observation (then
\* it is one of the ids observed for that channel: a marker of another channel
\* never shows up), otherwise the observed id list if non-empty, otherwise absent.
C4_MrvCur ==
    Reconciled =>
        \A mrn \in DOMAIN states : \A tag \in Channels(mrn) :
            LET cur == states[mrn].state[tag].mrv_cur
                ids == ObservedIds(mrn, tag)
            IN  \/ cur[1] = "str" /\ \E j \in 1..Len(ids) : ids[j] = cur[2]
                \/ cur[1] = "list" /\ Len(ids) > 0 /\ cur[2] = ids
                \/ cur[1] = "none" /\ Len(ids) = 0

\* C5: the merged map holds, for every component key, exactly the entry of the
\* last source, in the order host environment, cluster, registry, that reports
\* the key, and no other key.
C5_ShallowMerge ==
    /\ DOMAIN merged_data = DOMAIN os_data \cup DOMAIN cluster_data \cup DOMAIN images_data
    /\ \A key \in DOMAIN merged_data :
        merged_data[key] = IF key \in DOMAIN images_data THEN images_data[key]
                           ELSE IF key \in DOMAIN cluster_data THEN cluster_data[key]
                           ELSE os_data[key]

\* host {d: [a]} plus cluster {d: [b]} gives {d: [b]} ...
C5_Witness ==
    /\ pc = "reconciled"
    /\ <<"x">> \in DOMAIN os_data
    /\ <<"x">> \in DOMAIN cluster_data
    /\ <<"x">> \notin DOMAIN images_data
    /\ os_data[<<"x">>] = (<<"d">> :> << <<"a">> >>)
    /\ cluster_data[<<"x">>] = (<<"d">> :> << <<"b">> >>)
    /\ merged_data[<<"x">>] = (<<"d">> :> << <<"b">> >>)

\* C10: once more than max_files passes have rotated a current snapshot, the
\* log folder holds exactly 4 vars_with_state_* files, the 4 rotated last.
C10_RetentionBound ==
    Len(rotated) > 4 =>
        /\ Cardinality(Glob(folder, prefix)) = 4
        /\ Glob(folder, prefix) = {rotated[i] : i \in (Len(rotated) - 3)..Len(rotated)}

\* C11: a step that writes the current snapshot, on the normal path and on
\* the degraded path alike, finds no current snapshot in place: the one of the
\* pass before has been moved to the log folder first.
C11_RotateBeforeEveryWrite ==
    [][(snapshot'.exists /\ snapshot' # snapshot) => ~snapshot.exists]_vars

\* C12: an invocation that ends after some fetcher has delivered data, however
\* it ends, has written to the current snapshot the table reconciled from the
\* data merged so far.
C12_PartialSnapshotOnAnyFailure ==
    [][(pc # "idle" /\ pc' = "idle" /\ DOMAIN merged_data # {}) =>
          /\ snapshot'.exists
          /\ snapshot'.ctime = now
          /\ snapshot'.content = create_state(merged_data, state_builder_platform_components)]_vars

\* C13: the host-environment step of a pass never ends the pass, and the
\* cluster step is always followed by the images fetch, whether or not the
\* fetcher of the step failed.
C13_SourceFailureDoesNotAbort ==
    [][/\ (pc = "idle" /\ passes' # passes) => pc' = "os_done"
       /\ pc = "os_done" => pc' = "cluster_done"]_vars

----------------------------------------------------------------------------
(* Properties of the graph builder                                         *)

\* populate has completed and get_vars has returned
Built == bpc = "idle" /\ MachineResources \in DOMAIN resources

NoDuplicates(list) == \A i, j \in 1..Len(list) : i # j => list[i] # list[j]

\* the fields a reference to a registered mrn has to leave alone
Identity(resource) ==
    <<resource.mrk, resource.mrl, resource.mrv, resource.version, resource.mrt,
      resource.requires>>

\* C6: in a built graph every mrn names one record that was constructed once,
\* and no step, a reference to a registered mrn included, changes the kind,
\* locator, version, channels or requires of a registered record.
C6_OneRecordPerMrn ==
    /\ [](Built => \A mrn \in Mrns(resources) :
                      /\ constructed[mrn] = 1
                      /\ resources[mrn].mrn = mrn)
    /\ [][\A mrn \in Mrns(resources) :
              /\ mrn \in Mrns(resources')
              /\ Identity(resources'[mrn]) = Identity(resources[mrn])]_vars

\* a built graph in which n__l was referenced by two components and m__e_f by
\* two roles of the playbook
C6_Witness ==
    /\ Built
    /\ <<"n", "_", "_", "l">> \in Mrns(resources)
    /\ Cardinality(Elements(resources[<<"n", "_", "_", "l">>].requiredby)) = 2
    /\ <<"m", "_", "_", "e", "_", "f">> \in Mrns(resources)
    /\ constructed[<<"n", "_", "_", "l">>] = 1

\* C7: after populate B is in A.requires iff A is in B.requiredby, every name
\* of a requires list is a registered component, and no requiredby entry
\* exists while components are still being registered.
C7_InverseEdges ==
    /\ Built =>
          \A a \in Mrns(resources) :
              /\ Elements(resources[a].requires) \subseteq Mrns(resources)
              /\ Elements(resources[a].requiredby) \subseteq Mrns(resources)
              /\ \A b \in Mrns(resources) :
                    InList(b, resources[a].requires) <=> InList(a, resources[b].requiredby)
    /\ bpc = "build" /\ calls = 1 =>
          \A a \in Mrns(resources) : resources[a].requiredby = <<>>

\* a built graph with a forward edge and its inverse
C7_Witness ==
    /\ Built
    /\ <<"n", "_", "_", "a">> \in Mrns(resources)
    /\ InList(<<"n", "_", "_", "t">>, resources[<<"n", "_", "_", "a">>].requires)
    /\ InList(<<"n", "_", "_", "a">>, resources[<<"n", "_", "_", "t">>].requiredby)
    /\ ~InList(<<"n", "_", "_", "t">>, resources[<<"n", "_", "_", "a">>].requiredby)

\* C8: the requires of every component holds no mrn twice.
C8_RequiresIsOrderedSet ==
    \A mrn \in Mrns(resources) : NoDuplicates(resources[mrn].requires)

\* C9: a get_vars call on a built graph leaves the component table as the
\* first run built it: same keys, same requires and requiredby, same groupings.
C9_Idempotent ==
    Built =>
        /\ resources = first_table
        /\ normalized_resources = DictSet(first_table, PlatformComponents, first_table)

\* the builder has run a second time on a graph with edges
C9_Witness ==
    /\ Built
    /\ calls >= 2
    /\ returned.kind = "ok"
    /\ PlatformComponents \in DOMAIN returned.value
    /\ \E mrn \in Mrns(resources) : Len(resources[mrn].requiredby) > 0

----------------------------------------------------------------------------
(* Properties of fetch_version and create_state                            *)

\* the registry has been asked and fetch_from_registry has returned or raised
Asked == upc \notin {"off", "start"}

\* the walk over the catalog pages meets a page the registry answers with an error
RECURSIVE CatalogErrorFrom(_, _)
CatalogErrorFrom(catalog, last) ==
    LET page == catalog[catalog_expr(last)] IN
    IF page.outcome = "error" THEN TRUE
    ELSE IF page.outcome = "timeout" THEN FALSE
    ELSE IF page.link # 0 THEN CatalogErrorFrom(catalog, page.link)
    ELSE FALSE

\* the registry answers the tag list of a listed repository with an error body
TagListError(registry) ==
    LET got == get_paths(registry.catalog) IN
    /\ ~got.exit
    /\ \E i \in 1..Len(got.paths) : registry.taglists[got.paths[i]].outcome = "errors"

\* C14: when the registry answers a catalog page or a tag list with an error,
\* fetch_from_registry raises: it returns no map.
C14_RegistryErrorIsFatal ==
    (Asked /\ (CatalogErrorFrom(registry_in.catalog, 0) \/ TagListError(registry_in)))
        => registry_out.outcome # "ok"

\* processing the component raises at some point of create_state
FailsInCreateState(mrn) ==
    LET comp == components_in[mrn] IN
    \/ "mrv" \notin DOMAIN comp
    \/ "mrt" \notin DOMAIN comp
    \/ /\ "mrsn" \notin DOMAIN comp
       /\ mrn \in DOMAIN images_out
       /\ \E i \in 1..Len(comp.mrt) : comp.mrt[i] \in DOMAIN images_out[mrn]

\* C15: the table create_state returns holds every component whose
\* processing went through, with a record per channel, and no component whose
\* processing raised.
C15_FailingComponentOmitted ==
    upc = "created" =>
        \A mrn \in DOMAIN components_in :
            IF FailsInCreateState(mrn)
            THEN mrn \notin DOMAIN states_out
            ELSE /\ mrn \in DOMAIN states_out
                 /\ \A i \in 1..Len(components_in[mrn].mrt) :
                        components_in[mrn].mrt[i] \in DOMAIN states_out[mrn].state

\* the VersionTagEncoding: "<buildID>_<channel>" with an optional "-cur"
Underscores(tag) == Cardinality({i \in 1..Len(tag) : tag[i] = "_"})
WellFormed(tag) == Underscores(tag) = 1
TagId(tag) == Split1(tag, <<"_">>)[1]
IsCurrent(tag) ==
    Len(tag) >= 4 /\ SubSeq(tag, Len(tag) - 3, Len(tag)) = DashCur
TagChannel(tag) ==
    LET rest == Split1(tag, <<"_">>)[2]
    IN  IF IsCurrent(tag) THEN SubSeq(rest, 1, Len(rest) - 4) ELSE rest

\* the build ids the well-formed tags of a list give a channel, in list order
ChannelIds(tags, channel) ==
    LET of == SelectSeq(tags, LAMBDA t : WellFormed(t) /\ TagChannel(t) = channel)
    IN  [i \in 1..Len(of) |-> TagId(of[i])]

TagChannels(tags) == {TagChannel(tags[i]) : i \in {j \in 1..Len(tags) : WellFormed(tags[j])}}

\* the tag list of the one repository of the registry asked
OneRepository ==
    /\ registry_in.catalog = << Page(<<RepoX>>, 0) >>
    /\ registry_in.taglists[RepoX].outcome = "ok"
    /\ ~registry_in.taglists[RepoX].tagsNull

\* what the observation entry of a component gives as current version of a channel
CurrentOf(entry, channel) ==
    IF CurrentVersion \in DOMAIN entry THEN PyStr(entry[CurrentVersion]) ELSE PyNone

\* C16: the entry parsed from the tag list of a repository holds, for every
\* channel of a well-formed tag, the build ids of that channel in list order,
\* and gives as current version of a channel the build id of the tag of that
\* channel that carries -cur.
C16_TagsGroupedPerChannel ==
    (Asked /\ OneRepository /\ registry_out.outcome = "ok") =>
        LET tags == registry_in.taglists[RepoX].tags
            entry == registry_out.data[<<"x">>]
        IN  /\ \A channel \in TagChannels(tags) :
                  /\ channel \in DOMAIN entry
                  /\ entry[channel] = ChannelIds(tags, channel)
            /\ \A i \in 1..Len(tags) :
                  (/\ WellFormed(tags[i]) /\ IsCurrent(tags[i])
                   /\ \A j \in 1..Len(tags) :
                         (WellFormed(tags[j]) /\ IsCurrent(tags[j])
                          /\ TagChannel(tags[j]) = TagChannel(tags[i])) => j = i)
                  => CurrentOf(entry, TagChannel(tags[i])) = PyStr(TagId(tags[i]))

\* every channel, build id and current version of the entry stems from a tag
\* of the list with exactly one '_'
FromWellFormedTags(entry, tags) ==
    /\ \A channel \in DOMAIN entry \ {CurrentVersion} :
          \A k \in 1..Len(entry[channel]) :
              \E i \in 1..Len(tags) :
                  /\ WellFormed(tags[i])
                  /\ TagChannel(tags[i]) = channel
                  /\ TagId(tags[i]) = entry[channel][k]
    /\ CurrentVersion \in DOMAIN entry =>
          \E i \in 1..Len(tags) : WellFormed(tags[i]) /\ TagId(tags[i]) = entry[CurrentVersion]

\* the tags of the lines the local image lister printed
ListedTags ==
    LET lines == SelectSeq(Split(Strip(crictl_in.stdout), NL),
                           LAMBDA line : Len(SplitWs(line)) >= 2)
    IN  [i \in 1..Len(lines) |-> SplitWs(lines[i])[2]]

\* C17: in the map parsed from registry tags and in the map parsed from the
\* local listing, nothing stems from a tag that has no '_' or more than one.
C17_OnlyOneUnderscoreTags ==
    /\ (Asked /\ OneRepository /\ registry_out.outcome = "ok") =>
          FromWellFormedTags(registry_out.data[<<"x">>], registry_in.taglists[RepoX].tags)
    /\ (upc \in {"local_done", "fetched", "created"} /\ crictl_in.rc = "ok") =>
          \A mrn \in DOMAIN local_out : FromWellFormedTags(local_out[mrn], ListedTags)

\* C18: fetch_version returns the local map with the registry map layered on
\* it: in a component of both, a channel key of the registry has the registry
\* value and any other channel key its local value; a component of one map
\* only has the entry of that map.
C18_LocalBaseRegistryOverrides ==
    upc \in {"fetched", "created"} =>
        LET reg == registry_out.data IN
        /\ DOMAIN images_out = DOMAIN reg \cup DOMAIN local_out
        /\ \A key \in DOMAIN images_out :
              IF key \in DOMAIN reg /\ key \in DOMAIN local_out
              THEN /\ DOMAIN images_out[key] = DOMAIN reg[key] \cup DOMAIN local_out[key]
                   /\ \A channel \in DOMAIN images_out[key] :
                          images_out[key][channel] =
                              IF channel \in DOMAIN reg[key] THEN reg[key][channel]
                              ELSE local_out[key][channel]
              ELSE IF key \in DOMAIN reg THEN images_out[key] = reg[key]
              ELSE images_out[key] = local_out[key]

\* x is in both maps: channel k with differing ids, channel d only locally
C18_Witness ==
    /\ upc = "fetched"
    /\ <<"x">> \in DOMAIN registry_out.data
    /\ <<"x">> \in DOMAIN local_out
    /\ <<"k">> \in DOMAIN registry_out.data[<<"x">>]
    /\ <<"k">> \in DOMAIN local_out[<<"x">>]
    /\ registry_out.data[<<"x">>][<<"k">>] # local_out[<<"x">>][<<"k">>]
    /\ <<"d">> \in DOMAIN local_out[<<"x">>]
    /\ <<"d">> \notin DOMAIN registry_out.data[<<"x">>]
    /\ images_out[<<"x">>][<<"d">>] = local_out[<<"x">>][<<"d">>]
    /\ images_out[<<"x">>][<<"k">>] = registry_out.data[<<"x">>][<<"k">>]

\* C19: after a timeout or a non-zero exit of the local image lister
\* fetch_local_images has returned the empty map and fetch_version returns the
\* registry data as they are.
C19_LocalListerFailureIsEmpty ==
    (upc \in {"local_done", "fetched", "created"} /\ crictl_in.rc \in {"timeout", "nonzero"}) =>
        /\ local_out = EmptyDict
        /\ upc \in {"fetched", "created"} => images_out = registry_out.data

\* the lister timed out after printing two lines and the registry gave data
C19_Witness ==
    /\ upc = "fetched"
    /\ crictl_in.rc = "timeout"
    /\ Len(crictl_in.stdout) > 0
    /\ DOMAIN registry_out.data # {}
    /\ images_out = registry_out.data

----------------------------------------------------------------------------
(* Properties of the graph builder: metadata                               *)

\* C20: a get_vars call on a playbook with role n.m, whose meta/plasma.yaml is
\* missing, and without a role of unmapped kind returns without error; n__m is
\* registered with its kind and identifiers, version "unknown", and neither
\* author nor description.
C20_MissingMetadataIsNotFatal ==
    (/\ bpc = "idle"
     /\ calls >= 1
     /\ \E i \in 1..Len(PlayRoles(playbook)) : PlayRoles(playbook)[i].role = RoleNM
     /\ \A i \in 1..Len(PlayRoles(playbook)) : PlayRoles(playbook)[i].role # RoleNU)
    => /\ returned.kind = "ok"
       /\ normalize_name(RoleNM) \in DOMAIN resources
       /\ LET resource == resources[normalize_name(RoleNM)]
          IN  /\ resource.mrn = normalize_name(RoleNM)
              /\ resource.mrk = resource_kind_from_role_path(Roles[RoleNM].path)
              /\ resource.mrv = <<"unknown">>
              /\ "author" \notin DOMAIN resource
              /\ "description" \notin DOMAIN resource

----------------------------------------------------------------------------
(* Properties of the graph builder: failures                               *)

\* the playbook names role r
HasRole(r) == \E i \in 1..Len(PlayRoles(playbook)) : PlayRoles(playbook)[i].role = r

\* the roles whose storage location maps to no kind
UnmappedRoles == {r \in DOMAIN Roles : ~KnownKind(Roles[r].path)}

\* C21: on a playbook with a role whose folder maps to no kind, graph
\* construction never completes, and the get_vars call that runs it raises:
\* it ends with an error and without a component table.
C21_UnmappedKindAborts ==
    (\E r \in UnmappedRoles : HasRole(r)) =>
        /\ bpc # "populated"
        /\ ~Built
        /\ (bpc = "idle" /\ calls = 1) =>
               /\ returned.kind = "error"
               /\ returned.value = EmptyDict

\* the first call met n.u after it had registered n.s and its dependency
C21_Witness ==
    /\ bpc = "idle"
    /\ calls = 1
    /\ HasRole(RoleNU)
    /\ normalize_name(RoleNS) \in DOMAIN resources
    /\ normalize_name(RoleNU) \notin DOMAIN resources
    /\ returned.kind = "error"

\* C30: once a get_vars call has failed, every later call that returns a
\* value has built the whole graph: populate has completed and a platform
\* group gets the component table with its platform_components copy.
C30_NoPartialTableAfterFailure ==
    [][(returned.kind = "error" \/ (returned.kind = "ok" /\ ~Built))
       /\ returned'.kind = "ok"
       => /\ Built'
          /\ returned' = ReturnValue(entities', DictSet(resources', PlatformComponents, resources'))]_vars

\* the dependencies of kind k of a registered component, in requires order
KindList(resource, k) ==
    SelectSeq(resource.requires, LAMBDA d : resources[d].mrk = k)

\* the kinds among the dependencies of a registered component
KindsOf(resource) == {resources[d].mrk : d \in Elements(resource.requires)}

\* the flow has a task with flow_output
HasFlowOutput(resource) == resource.mrk = "flow" /\ "output" \in DOMAIN resource

\* the singular field of k holds an mrn, not a FlowSkill record
HoldsMrn(resource, k) == ~(k = "skill" /\ HasFlowOutput(resource))

PluralIsKindList(resource, k) ==
    /\ kind_plural[k] \in DOMAIN resource
    /\ resource[kind_plural[k]] = KindList(resource, k)

\* C22 as claimed: for every registered component and every kind k among its
\* dependencies the plural field of k is the list of its dependencies of kind
\* k in requires order, and with exactly one such dependency the singular
\* field of k is that mrn.
C22_GroupingsByKind ==
    \A mrn \in Mrns(resources) : \A k \in KindsOf(resources[mrn]) :
        /\ PluralIsKindList(resources[mrn], k)
        /\ Len(KindList(resources[mrn], k)) = 1 =>
               /\ k \in DOMAIN resources[mrn]
               /\ HoldsMrn(resources[mrn], k)
               /\ resources[mrn][k] = KindList(resources[mrn], k)[1]

\* C22 amended: the plural field of k is the list of the dependencies of kind
\* k in requires order; the singular field of k is set whenever that list is
\* not empty, to its first entry, except for the skill field of a flow with a
\* flow_output task, which is the record of that first entry and its stage.
C22_GroupingsByKindButFlowSkill ==
    \A mrn \in Mrns(resources) : \A k \in KindsOf(resources[mrn]) :
        /\ PluralIsKindList(resources[mrn], k)
        /\ k \in DOMAIN resources[mrn]
        /\ resources[mrn][k] =
               IF k = "skill" /\ HasFlowOutput(resources[mrn])
               THEN [name |-> KindList(resources[mrn], k)[1],
                     stage |-> resources[KindList(resources[mrn], k)[1]].stage]
               ELSE KindList(resources[mrn], k)[1]

\* a flow with one skill and a flow_output task next to a component with
\* three service entries in its requires
C22_Witness ==
    /\ Built
    /\ normalize_name(RoleNF) \in Mrns(resources)
    /\ HasFlowOutput(resources[normalize_name(RoleNF)])
    /\ Len(resources[normalize_name(RoleNF)].skills) = 1
    /\ resources[normalize_name(RoleNF)].service = normalize_name(RoleNS)
    /\ resources[normalize_name(RoleNG)].skill = normalize_name(RoleNK)

----------------------------------------------------------------------------
(* Properties of a reconciliation pass: the files it leaves                *)

\* the pass has ended with exit_json(**states)
Returned == pc = "idle" /\ outcome.kind = "exit_json"

\* C29: when a pass has returned a state table, on the normal path or from
\* the CalledProcessError handler, the current-snapshot file exists, was
\* written by this pass and holds that table.
C29_SnapshotIsReturnedTable ==
    Returned =>
        /\ snapshot.exists
        /\ snapshot.ctime = now
        /\ snapshot.content = outcome.value

\* the files of the raw maps and of the merged map
DiagnosticFiles == {<<"os_data">>, <<"cluster_data">>, <<"images_data">>, <<"merge_data">>}

WrittenThisPass(name) == name \in DOMAIN folder /\ folder[name].ctime = now

\* the handler returned a table of a pass that wrote no merged map
C29_Witness ==
    /\ Returned
    /\ DOMAIN outcome.value # {}
    /\ ~WrittenThisPass(<<"merge_data">>)
    /\ snapshot.content = outcome.value
    /\ Len(rotated) > 0

\* no step removes one of the four files from the log folder
DiagnosticFilesStay ==
    [][\A name \in DiagnosticFiles : name \in DOMAIN folder => name \in DOMAIN folder']_vars

\* C26 as claimed: every pass that returns a table has written the three raw
\* maps and the merged map into the log folder, and no step removes one of
\* these four files.
C26_EveryPassPersistsDiagnostics ==
    /\ [](Returned => \A name \in DiagnosticFiles : WrittenThisPass(name))
    /\ DiagnosticFilesStay

\* C26 amended: a pass writes the raw map of each fetcher that has returned
\* and the merged map once the three of them have returned, so a pass that
\* returns on the normal path has written the four files; no step, retention
\* enforcement included, removes one of them.
C26_PersistsWhatWasFetched ==
    /\ [](/\ pc \notin {"idle"} => WrittenThisPass(<<"os_data">>)
          /\ pc \in {"cluster_done", "images_done", "reconciled", "rotated"}
                => WrittenThisPass(<<"cluster_data">>)
          /\ pc \in {"images_done", "reconciled", "rotated"}
                => /\ WrittenThisPass(<<"images_data">>)
                   /\ WrittenThisPass(<<"merge_data">>))
    /\ [][pc = "rotated" /\ pc' = "idle"
            => \A name \in DiagnosticFiles : WrittenThisPass(name)']_vars
    /\ DiagnosticFilesStay

\* retention enforcement has removed a rotated snapshot in a pass that wrote
\* the four files
C26_Witness ==
    /\ pc = "rotated"
    /\ \E i \in 1..Len(rotated) : rotated[i] \notin DOMAIN folder
    /\ \A name \in DiagnosticFiles : WrittenThisPass(name)

----------------------------------------------------------------------------
(* Properties of fetch_from_registry and of the two tag parsers            *)

\* C24: a map returned by fetch_from_registry is the map every other order of
\* completion of the same tag-list requests gives.
C24_CompletionOrderIndependent ==
    (Asked /\ registry_out.outcome = "ok") =>
        \A order \in Orders(Len(paths_out)) :
            fetch_from_registry(registry_in, order) = registry_out

\* the catalog pages in the order the Link headers chain them, from page n on
RECURSIVE PageChain(_, _)
PageChain(catalog, n) ==
    IF catalog[n].outcome # "ok" \/ catalog[n].link = 0 THEN <<catalog[n]>>
    ELSE <<catalog[n]>> \o PageChain(catalog, catalog[n].link)

RECURSIVE Concatenation(_)
Concatenation(pages) ==
    IF Len(pages) = 0 THEN <<>> ELSE Head(pages).repositories \o Concatenation(Tail(pages))

EveryPageSucceeds(catalog) ==
    \A i \in 1..Len(PageChain(catalog, 1)) : PageChain(catalog, 1)[i].outcome = "ok"

\* C25: when every page of the catalog succeeds, get_paths returns the
\* repositories of all the pages chained by their Link headers, up to and
\* with the first page without a Link header, in page order.
C25_PaginationIsExhaustive ==
    (Asked /\ EveryPageSucceeds(registry_in.catalog)) =>
        paths_out = Concatenation(PageChain(registry_in.catalog, 1))

\* the local lister printed one line per tag of the repository x
SameListing ==
    /\ OneRepository
    /\ crictl_in = [rc |-> "ok", stdout |-> ImageLines(registry_in.taglists[RepoX].tags),
                    stderr |-> <<>>]

\* the channels of an observation entry with their build ids
ChannelsOf(entry) == [k \in DOMAIN entry \ {CurrentVersion} |-> entry[k]]

\* C27: for the image x listed locally with the tags the registry holds for
\* x, the local parser and the registry parser give x the same channels with
\* the same build-id lists.
C27_LocalParsesLikeRegistry ==
    (upc \in {"local_done", "fetched", "created"} /\ SameListing) =>
        LET reg == ChannelsOf(registry_out.data[<<"x">>])
            loc == IF <<"x">> \in DOMAIN local_out
                   THEN ChannelsOf(local_out[<<"x">>]) ELSE EmptyDict
        IN  /\ DOMAIN loc = DOMAIN reg
            /\ \A k \in DOMAIN reg : loc[k] = reg[k]

----------------------------------------------------------------------------
(* Properties of the thread pool of fetch_from_registry                    *)

\* C23: at most max_workers requests are in flight; when the results map has
\* been written to, every request has been submitted and has completed; and
\* the only thread that writes to the results map is the calling thread.
C23_BoundedPoolThenCallerWrites ==
    /\ running <= max_workers
    /\ written > 0 => (submitted = commands /\ finished = commands /\ running = 0)
    /\ writer \in {"none", "caller"}
    /\ written > 0 <=> writer = "caller"

\* more requests than workers, all aggregated by the calling thread
C23_Witness ==
    /\ ppc = "returned"
    /\ commands > max_workers
    /\ written = commands
    /\ writer = "caller"

----------------------------------------------------------------------------
(* Properties of machine_deep_requires_lookup                              *)

\* the names reachable from a set of names through requires edges
RECURSIVE Closure(_, _)
Closure(table, names) ==
    LET next == names \cup UNION {Elements(table[n].requires) : n \in names}
    IN  IF next = names THEN names ELSE Closure(table, next)

\* the names reachable from a component through one or more requires edges
Reachable(table, resource) == Closure(table, Elements(resource.requires))

\* C28: on every acyclic table the filter returns, and what it returns has
\* one key per kind of a component reachable through one or more requires
\* edges, under which every reachable component of the kind is listed once
\* and nothing else is.
C28_DeepClosure ==
    fpc = "returned" =>
        LET table == FirstHost(hostvars_in)
            reach == Reachable(table, resource_in)
        IN  /\ DOMAIN lookup_out = {table[n].mrk : n \in reach}
            /\ \A k \in DOMAIN lookup_out :
                  /\ NoDuplicates(lookup_out[k])
                  /\ Elements(lookup_out[k]) = {table[n] : n \in {m \in reach : table[m].mrk = k}}

\* the component requires two components that both require a third one, and
\* the closure holds both kinds
C28_Witness ==
    /\ fpc = "returned"
    /\ Cardinality(DOMAIN lookup_out) = 2
    /\ LET table == FirstHost(hostvars_in)
       IN  \E a, b \in Elements(resource_in.requires) :
              /\ a # b
              /\ \E n \in DOMAIN table :
                    /\ InList(n, table[a].requires)
                    /\ InList(n, table[b].requires)
                    /\ ~InList(n, resource_in.requires)

====
